---------------------------- MODULE Spec2Model ----------------------------
(***************************************************************************)
(* Contraction-hierarchies routing engine (shepherd-rs).                   *)
(*                                                                         *)
(* The model follows the pipeline of the repository:                       *)
(*   build_edge_lists -> contract_graph (rank_node, contract_node,         *)
(*   remove_edges_from_neighbors) -> CSRGraph::from_preprocessed_graph ->  *)
(*   bi_dir_dijkstra -> ShortcutVisitor::visit.                            *)
(*                                                                         *)
(* Conventions.  Node IDs and edge IDs are 0-based as in the Rust code; a  *)
(* Vec<T> is a TLA+ sequence, so element i of a Vec is v[i + 1].  Per-node *)
(* Vecs (fwd_edge_list, nodes, weights) are functions over Nodes.          *)
(* Option<T> is a sequence of length 0 (None) or 1 (Some).  Weights are    *)
(* naturals; f32/f64 INFINITY is the value Inf, absorbing under addition.  *)
(***************************************************************************)
EXTENDS Integers, Sequences, FiniteSets, TLC

\* ------------------------------------------------------------------ bounds
NumNodes == 4
MaxWays == 3
MaxWeight == 2
MaxPacked == 2
MaxWaysPar == 2
MaxBuildWays == 2
MaxWaysSearch == 2
MaxCalls == 2
MaxRefs == 3
BuildNodes == 3

\* f64::INFINITY
Inf == 1000000
\* max_hops of the witness searches in routing-engine's contract_node and rank_node
MaxHops == 500

Nodes == 0 .. (NumNodes - 1)

None == << >>
Some(x) == << x >>
IsSome(o) == Len(o) = 1
Unwrap(o) == o[1]

\* f64 addition with INFINITY absorbing
Plus(a, b) == IF a >= Inf \/ b >= Inf THEN Inf ELSE a + b

Min2(a, b) == IF a <= b THEN a ELSE b

Last(s) == s[Len(s)]

RECURSIVE SeqSum(_)
SeqSum(s) == IF s = << >> THEN 0 ELSE Head(s) + SeqSum(Tail(s))

\* Vec::retain(|&e| e != x)
Retain(s, x) == SelectSeq(s, LAMBDA e : e # x)

\* the elements of a sequence
Range(s) == { s[k] : k \in 1 .. Len(s) }

\* number of positions of s holding x
Count(s, x) == Cardinality({ k \in 1 .. Len(s) : s[k] = x })


\* ------------------------------------------------------------ mutable Graph
\* Graph { fwd_edge_list, bwd_edge_list, nodes, edges, edge_metadata }
EmptyGraph ==
    [ fwd_edge_list |-> [n \in Nodes |-> << >>],
      bwd_edge_list |-> [n \in Nodes |-> << >>],
      nodes         |-> [n \in Nodes |-> [dense_id |-> n, rank |-> 0]],
      edges         |-> << >>,
      edge_metadata |-> << >> ]

num_edges(g) == Len(g.edges)

get_edge(g, edge_id) == g.edges[edge_id + 1]

get_edge_metadata(g, edge) == g.edge_metadata[edge.metadata_index + 1]

get_fwd_neighbors(g, dense_id) == g.fwd_edge_list[dense_id]

get_bwd_neighbors(g, dense_id) == g.bwd_edge_list[dense_id]

\* weight of the edge with the given ID
EdgeWeight(g, edge_id) == get_edge_metadata(g, get_edge(g, edge_id)).weight

\* Graph::add_edge / the pushes of build_edge_lists: append the edge and
\* register its ID in both adjacency lists
add_edge(g, src_id, dest_id, metadata_index) ==
    LET edge_id == Len(g.edges)
        e == [src_id |-> src_id, dest_id |-> dest_id, metadata_index |-> metadata_index]
        f == [g.fwd_edge_list EXCEPT ![src_id] = Append(@, edge_id)]
    IN  [g EXCEPT !.edges = Append(@, e),
                  !.fwd_edge_list = f,
                  !.bwd_edge_list = [g.bwd_edge_list EXCEPT ![dest_id] = Append(@, edge_id)]]

\* Graph::add_shortcut_edge
add_shortcut_edge_bwd_src(g, src_id, dest_id, metadata_index) ==
    LET edge_id_forward == Len(g.edges)
        e == [src_id |-> src_id, dest_id |-> dest_id, metadata_index |-> metadata_index]
    IN  [g EXCEPT !.edges = Append(@, e),
                  !.fwd_edge_list = [g.fwd_edge_list EXCEPT ![src_id] = Append(@, edge_id_forward)],
                  !.bwd_edge_list = [g.bwd_edge_list EXCEPT ![src_id] = Append(@, edge_id_forward)]]

add_shortcut_edge(g, src_id, dest_id, metadata_index) ==
    LET edge_id_forward == Len(g.edges)
        e == [src_id |-> src_id, dest_id |-> dest_id, metadata_index |-> metadata_index]
    IN  [g EXCEPT !.edges = Append(@, e),
                  !.fwd_edge_list = [g.fwd_edge_list EXCEPT ![src_id] = Append(@, edge_id_forward)],
                  !.bwd_edge_list = [g.bwd_edge_list EXCEPT ![dest_id] = Append(@, edge_id_forward)]]

\* the rank assigned whatever the node's rank is
raise_rank_assign(g, dense_id, rank) ==
    [g EXCEPT !.nodes[dense_id].rank = rank]

\* Node::raise_rank
raise_rank(g, dense_id, rank) ==
    IF rank >= g.nodes[dense_id].rank
    THEN [g EXCEPT !.nodes[dense_id].rank = rank]
    ELSE g

\* ------------------------------------------------------------------ builder
\* A way without intersection data: refs r0..rk give one edge r0 -> rk and,
\* unless the way is one-way (or a closed loop), the reverse edge sharing the
\* same metadata record.  way = [curr, next, weight, is_oneway]
OriginalMetadata(weight) == [weight |-> weight, prev_edge |-> None, next_edge |-> None]

\* the reverse edge pushed also for a closed way
build_way_closed_reverse(g, way) ==
    LET metadata_index == Len(g.edge_metadata)
        g1 == [g EXCEPT !.edge_metadata = Append(@, OriginalMetadata(way.weight))]
        g2 == add_edge(g1, way.curr, way.next, metadata_index)
    IN  IF ~way.is_oneway
        THEN add_edge(g2, way.next, way.curr, metadata_index)
        ELSE g2

build_way(g, way) ==
    LET metadata_index == Len(g.edge_metadata)
        g1 == [g EXCEPT !.edge_metadata = Append(@, OriginalMetadata(way.weight))]
        g2 == add_edge(g1, way.curr, way.next, metadata_index)
    IN  IF ~way.is_oneway /\ way.curr # way.next
        THEN add_edge(g2, way.next, way.curr, metadata_index)
        ELSE g2

RECURSIVE build_edge_lists_from(_, _)
build_edge_lists_from(g, ways) ==
    IF ways = << >> THEN g
    ELSE build_edge_lists_from(build_way(g, Head(ways)), Tail(ways))

build_edge_lists(ways) == build_edge_lists_from(EmptyGraph, ways)

\* The three branches of build_edge_lists, for way data
\* wd = [is_roundabout, is_oneway, refs, inter, weight]; inter is the entry
\* of intersections_map for the way (None when it has none), weight the
\* weight computed for each of its segments.
\* one segment of a roundabout: (curr, next) of tuple_windows over the refs
RECURSIVE build_roundabout(_, _, _)
build_roundabout(g, wd, refs) ==
    IF Len(refs) < 2 THEN g
    ELSE LET curr == refs[1]
             next == refs[2]
             metadata_index == Len(g.edge_metadata)
             g1 == [g EXCEPT !.edge_metadata = Append(@, OriginalMetadata(wd.weight))]
             g2 == add_edge(g1, curr, next, metadata_index)
             g3 == IF ~(wd.is_oneway \/ wd.is_roundabout) /\ curr # next
                   THEN add_edge(g2, next, curr, metadata_index)
                   ELSE g2
         IN  build_roundabout(g3, wd, Tail(refs))

\* one segment of a way with intersections: (prev, curr, next) of
\* tuple_windows over its intersection nodes gives the edge prev -> next
RECURSIVE build_intersections(_, _, _)
build_intersections(g, wd, osm_ids) ==
    IF Len(osm_ids) < 3 THEN g
    ELSE LET prev == osm_ids[1]
             next == osm_ids[3]
             metadata_index == Len(g.edge_metadata)
             g1 == [g EXCEPT !.edge_metadata = Append(@, OriginalMetadata(wd.weight))]
             g2 == add_edge(g1, prev, next, metadata_index)
             g3 == IF ~wd.is_oneway
                   THEN add_edge(g2, next, prev, metadata_index)
                   ELSE g2
         IN  build_intersections(g3, wd, Tail(osm_ids))

\* a way without intersections: the edge first ref -> last ref
build_endpoints(g, wd) ==
    build_way(g, [curr |-> Head(wd.refs), next |-> Last(wd.refs),
                  weight |-> wd.weight, is_oneway |-> wd.is_oneway])

\* ------------------------------------------- priority_queue::PriorityQueue
\* A binary heap of items (node IDs) with a key per item.  Both queues of the
\* program order items by a reversed priority (Reverse<i32>, HeapItem), so
\* the item of the smallest key is the top; "priority a > priority b" is
\* key[a] < key[b].  heap position p (0-based) is heap[p + 1].
PQEmpty == [heap |-> << >>, key |-> [n \in Nodes |-> 0]]

PQLen(q) == Len(q.heap)

PQContains(q, item) == \E k \in 1 .. Len(q.heap) : q.heap[k] = item

PQPosition(q, item) == (CHOOSE k \in 1 .. Len(q.heap) : q.heap[k] = item) - 1

Parent(pos) == (pos - 1) \div 2

\* bubble_up: move parents of strictly lower priority down, then place item
RECURSIVE BubbleUp(_, _, _, _)
BubbleUp(heap, key, pos, item) ==
    IF pos > 0 /\ key[heap[Parent(pos) + 1]] > key[item]
    THEN BubbleUp([heap EXCEPT ![pos + 1] = heap[Parent(pos) + 1]], key, Parent(pos), item)
    ELSE [heap |-> [heap EXCEPT ![pos + 1] = item], pos |-> pos]

\* heapify: sift the item at position i down below children of strictly
\* higher priority (the left child is examined first)
RECURSIVE Heapify(_, _, _)
Heapify(heap, key, i) ==
    LET n == Len(heap)
        l == 2 * i + 1
        r == 2 * i + 2
        viaL == IF l < n /\ key[heap[l + 1]] < key[heap[i + 1]] THEN l ELSE i
        largest == IF r < n /\ key[heap[r + 1]] < key[heap[viaL + 1]] THEN r ELSE viaL
    IN  IF n <= 1 \/ largest = i THEN heap
        ELSE Heapify([heap EXCEPT ![i + 1] = heap[largest + 1],
                                  ![largest + 1] = heap[i + 1]], key, largest)

\* up_heapify: after a priority change at position pos
UpHeapify(heap, key, pos) ==
    LET b == BubbleUp(heap, key, pos, heap[pos + 1])
    IN  Heapify(b.heap, key, b.pos)

\* PriorityQueue::push: a present item has its priority replaced
PQPush(q, item, k) ==
    LET key == [q.key EXCEPT ![item] = k]
    IN  IF PQContains(q, item)
        THEN [heap |-> UpHeapify(q.heap, key, PQPosition(q, item)), key |-> key]
        ELSE [heap |-> BubbleUp(Append(q.heap, item), key, Len(q.heap), item).heap,
              key |-> key]

\* a change_priority that inserts an absent item, as push does
PQChangePriority_inserting(q, item, k) == PQPush(q, item, k)

\* PriorityQueue::change_priority: an absent item is not inserted
PQChangePriority(q, item, k) ==
    IF PQContains(q, item) THEN PQPush(q, item, k) ELSE q

\* PriorityQueue::pop: the root is removed, the last item takes its place
\* and is sifted down.  Only meaningful on a non-empty queue.
PQTop(q) == q.heap[1]

PQPop(q) ==
    LET n == Len(q.heap)
        key == [q.key EXCEPT ![q.heap[1]] = 0]
    IN  IF n = 1 THEN [heap |-> << >>, key |-> key]
        ELSE [heap |-> Heapify(<< q.heap[n] >> \o SubSeq(q.heap, 2, n - 1), key, 0),
              key |-> key]


\* ------------------------------------------------- witness search Dijkstra
\* Dijkstra { src, ignore, weights, queue }
NewDijkstra ==
    [src |-> 0, ignore |-> 0, weights |-> [n \in Nodes |-> Inf], queue |-> PQEmpty]

\* Dijkstra::init (reset, then seed the source)
init(d, src, ignore) ==
    [src |-> src, ignore |-> ignore,
     weights |-> [[n \in Nodes |-> Inf] EXCEPT ![src] = 0],
     queue |-> PQPush(PQEmpty, src, 0)]

\* the relaxation loop relaxing the edges into the ignored node as well
RECURSIVE Relax_through_ignore(_, _, _, _)
Relax_through_ignore(d, g, curr_id, ids) ==
    IF ids = << >> THEN d
    ELSE LET neighbor_edge == get_edge(g, Head(ids))
             neighbor_id == neighbor_edge.dest_id
             weight == Plus(d.weights[curr_id], get_edge_metadata(g, neighbor_edge).weight)
             adj_weight == d.weights[neighbor_id]
             d1 == IF weight = Inf THEN d
                   ELSE IF weight < adj_weight \/ adj_weight = Inf
                        THEN [d EXCEPT !.weights[neighbor_id] = weight,
                                       !.queue = PQPush(d.queue, neighbor_id, weight)]
                        ELSE d
         IN  Relax_through_ignore(d1, g, curr_id, Tail(ids))

\* one pass of the relaxation loop of Dijkstra::search over the forward
\* edges ids of curr_id
RECURSIVE Relax(_, _, _, _)
Relax(d, g, curr_id, ids) ==
    IF ids = << >> THEN d
    ELSE LET neighbor_edge == get_edge(g, Head(ids))
             neighbor_id == neighbor_edge.dest_id
             weight == Plus(d.weights[curr_id], get_edge_metadata(g, neighbor_edge).weight)
             adj_weight == d.weights[neighbor_id]
             d1 == IF neighbor_id = d.ignore \/ weight = Inf THEN d
                   ELSE IF weight < adj_weight \/ adj_weight = Inf
                        THEN [d EXCEPT !.weights[neighbor_id] = weight,
                                       !.queue = PQPush(d.queue, neighbor_id, weight)]
                        ELSE d
         IN  Relax(d1, g, curr_id, Tail(ids))

\* Dijkstra::search, from the state left by init or by an earlier search.
\* The result carries the searcher's new state, the returned weight and the
\* number of queue pops made.
RECURSIVE SearchLoop(_, _, _, _, _, _, _)
SearchLoop(d, g, dest, limit_weight, max_hops, num_hops, pops) ==
    IF PQLen(d.queue) = 0
    THEN [d |-> d, weight |-> d.weights[dest], pops |-> pops]
    ELSE LET curr_id == PQTop(d.queue)
             d1 == [d EXCEPT !.queue = PQPop(d.queue)]
         IN  IF num_hops = max_hops
             THEN [d |-> d1, weight |-> d1.weights[dest], pops |-> pops + 1]
             ELSE IF d1.weights[dest] <= limit_weight
             THEN [d |-> d1, weight |-> d1.weights[dest], pops |-> pops + 1]
             ELSE LET d2 == Relax(d1, g, curr_id, get_fwd_neighbors(g, curr_id))
                  IN  IF curr_id = dest
                      THEN [d |-> d2, weight |-> d2.weights[dest], pops |-> pops + 1]
                      ELSE SearchLoop(d2, g, dest, limit_weight, max_hops,
                                      num_hops + 1, pops + 1)

search(d, g, dest, limit_weight, max_hops) ==
    SearchLoop(d, g, dest, limit_weight, max_hops, 0, 0)

\* ---------------------------------------------------------- local_dijkstra
\* the older witness search.  queue is the BinaryHeap as the sequence of
\* its items [id, dist]; pop takes an item of least dist (which one of
\* several is decided by the heap's layout, so each is tried); dist_map is
\* the HashMap with Inf for an absent key.  The value is the set of
\* results the call can return.
LeastItems(queue) ==
    { k \in 1 .. Len(queue) : \A j \in 1 .. Len(queue) : queue[k].dist <= queue[j].dist }

RemoveAt(s, k) == SubSeq(s, 1, k - 1) \o SubSeq(s, k + 1, Len(s))

\* the loop over the forward neighbors entering the excluded node as well
RECURSIVE LocalRelax_into_excluded(_, _, _, _, _)
LocalRelax_into_excluded(st, g, curr_dist, exclude_node, ids) ==
    IF ids = << >> THEN st
    ELSE LET neighbor == get_edge(g, Head(ids))
             neighbor_id == neighbor.dest_id
             alt == Plus(curr_dist, get_edge_metadata(g, neighbor).weight)
             st1 == IF alt < st.dist_map[neighbor_id]
                    THEN [queue |-> Append(st.queue, [id |-> neighbor_id, dist |-> alt]),
                          dist_map |-> [st.dist_map EXCEPT ![neighbor_id] = alt]]
                    ELSE st
         IN  LocalRelax_into_excluded(st1, g, curr_dist, exclude_node, Tail(ids))

\* the loop over the forward neighbors of curr_id
RECURSIVE LocalRelax(_, _, _, _, _)
LocalRelax(st, g, curr_dist, exclude_node, ids) ==
    IF ids = << >> THEN st
    ELSE LET neighbor == get_edge(g, Head(ids))
             neighbor_id == neighbor.dest_id
             alt == Plus(curr_dist, get_edge_metadata(g, neighbor).weight)
             st1 == IF neighbor_id # exclude_node /\ alt < st.dist_map[neighbor_id]
                    THEN [queue |-> Append(st.queue, [id |-> neighbor_id, dist |-> alt]),
                          dist_map |-> [st.dist_map EXCEPT ![neighbor_id] = alt]]
                    ELSE st
         IN  LocalRelax(st1, g, curr_dist, exclude_node, Tail(ids))

RECURSIVE LocalLoop(_, _, _, _, _)
LocalLoop(st, g, dest_node, exclude_node, limit_weight) ==
    IF st.queue = << >> THEN { None }
    ELSE UNION {
           LET curr_id == st.queue[k].id
               curr_dist == st.queue[k].dist
               st1 == [st EXCEPT !.queue = RemoveAt(st.queue, k)]
           IN  IF curr_dist > st.dist_map[curr_id]
               THEN LocalLoop(st1, g, dest_node, exclude_node, limit_weight)
               ELSE IF curr_dist >= limit_weight THEN { None }
               ELSE IF curr_id = dest_node THEN { Some(curr_dist) }
               ELSE LocalLoop(LocalRelax(st1, g, curr_dist, exclude_node,
                                         get_fwd_neighbors(g, curr_id)),
                              g, dest_node, exclude_node, limit_weight)
           : k \in LeastItems(st.queue) }

local_dijkstra(g, src_node, dest_node, exclude_node, limit_weight) ==
    LocalLoop([queue |-> << [id |-> src_node, dist |-> 0] >>,
               dist_map |-> [[n \in Nodes |-> Inf] EXCEPT ![src_node] = 0]],
              g, dest_node, exclude_node, limit_weight)

\* --------------------------------------------------------------- rank_node
\* the inner loop of rank_node over the forward edges, for one backward edge
RECURSIVE RankInner(_, _, _, _, _, _, _)
RankInner(g, d, node_id, bwd_edge, fwd_ids, count, max_hops) ==
    IF fwd_ids = << >> THEN [d |-> d, count |-> count]
    ELSE LET fwd_edge == get_edge(g, Head(fwd_ids))
             fwd_dest_id == fwd_edge.dest_id
             weight_v_u == get_edge_metadata(g, fwd_edge).weight
             weight_u_w == get_edge_metadata(g, bwd_edge).weight
             combined_weight == weight_u_w + weight_v_u
             r == search(d, g, fwd_dest_id, combined_weight, max_hops)
         IN  IF fwd_dest_id = bwd_edge.src_id
             THEN RankInner(g, d, node_id, bwd_edge, Tail(fwd_ids), count, max_hops)
             ELSE RankInner(g, r.d, node_id, bwd_edge, Tail(fwd_ids),
                            IF r.weight > combined_weight THEN count + 1 ELSE count,
                            max_hops)

RECURSIVE RankOuter(_, _, _, _, _, _)
RankOuter(g, d, node_id, bwd_ids, count, max_hops) ==
    IF bwd_ids = << >> THEN [d |-> d, count |-> count]
    ELSE LET bwd_edge == get_edge(g, Head(bwd_ids))
             r == RankInner(g, init(d, bwd_edge.src_id, node_id), node_id, bwd_edge,
                            get_fwd_neighbors(g, node_id), count, max_hops)
         IN  RankOuter(g, r.d, node_id, Tail(bwd_ids), r.count, max_hops)

\* rank_node with the hop budget of its searches:
\* [d |-> the searcher afterwards, rank |-> importance]
rank_node(g, d, node_id, max_hops) ==
    LET node_degree == Len(g.bwd_edge_list[node_id]) + Len(g.fwd_edge_list[node_id])
        r == RankOuter(g, d, node_id, get_bwd_neighbors(g, node_id), 0, max_hops)
    IN  [d |-> r.d, rank |-> r.count - node_degree]

\* ------------------------------------------------------------ add_shortcut
\* add_shortcut with the two back-pointers exchanged
add_shortcut_swapped(g, w, v, combined_weight, prev_edge_idx, next_edge_idx) ==
    LET shortcut_metadata == [weight |-> combined_weight,
                              prev_edge |-> Some(next_edge_idx),
                              next_edge |-> Some(prev_edge_idx)]
        metadata_index == Len(g.edge_metadata)
    IN  add_shortcut_edge([g EXCEPT !.edge_metadata = Append(@, shortcut_metadata)],
                          w, v, metadata_index)

\* add_shortcut recording the new edge's own ID as its prev_edge
add_shortcut_prev_self(g, w, v, combined_weight, prev_edge_idx, next_edge_idx) ==
    LET shortcut_metadata == [weight |-> combined_weight,
                              prev_edge |-> Some(Len(g.edges)),
                              next_edge |-> Some(next_edge_idx)]
        metadata_index == Len(g.edge_metadata)
    IN  add_shortcut_edge([g EXCEPT !.edge_metadata = Append(@, shortcut_metadata)],
                          w, v, metadata_index)

add_shortcut(g, w, v, combined_weight, prev_edge_idx, next_edge_idx) ==
    LET shortcut_metadata == [weight |-> combined_weight,
                              prev_edge |-> Some(prev_edge_idx),
                              next_edge |-> Some(next_edge_idx)]
        metadata_index == Len(g.edge_metadata)
    IN  add_shortcut_edge([g EXCEPT !.edge_metadata = Append(@, shortcut_metadata)],
                          w, v, metadata_index)

\* ---------------------------------------------- remove_edges_from_neighbors
RECURSIVE RemoveFromBwd(_, _)
RemoveFromBwd(g, fwd_edges) ==
    IF fwd_edges = << >> THEN g
    ELSE LET edge_idx == Head(fwd_edges)
             edge == get_edge(g, edge_idx)
         IN  RemoveFromBwd([g EXCEPT !.bwd_edge_list[edge.dest_id] = Retain(@, edge_idx)],
                           Tail(fwd_edges))

RECURSIVE RemoveFromFwd(_, _)
RemoveFromFwd(g, bwd_edges) ==
    IF bwd_edges = << >> THEN g
    ELSE LET edge_idx == Head(bwd_edges)
             edge == get_edge(g, edge_idx)
         IN  RemoveFromFwd([g EXCEPT !.fwd_edge_list[edge.src_id] = Retain(@, edge_idx)],
                           Tail(bwd_edges))

\* remove_edges_from_neighbors without its second loop
remove_edges_from_neighbors_fwd_only(g, contracted_id) ==
    LET fwd_edges == g.fwd_edge_list[contracted_id]
        g1 == RemoveFromBwd(g, fwd_edges)
    IN  [g1 EXCEPT !.fwd_edge_list[contracted_id] = << >>,
                   !.bwd_edge_list[contracted_id] = << >>]

remove_edges_from_neighbors(g, contracted_id) ==
    LET fwd_edges == g.fwd_edge_list[contracted_id]
        bwd_edges == g.bwd_edge_list[contracted_id]
        g1 == RemoveFromFwd(RemoveFromBwd(g, fwd_edges), bwd_edges)
    IN  [g1 EXCEPT !.fwd_edge_list[contracted_id] = << >>,
                   !.bwd_edge_list[contracted_id] = << >>]


\* ---------------------------------------------------------------- CSRGraph
\* the target a backward row's hot record carries: the edge's source
BwdTarget_dest(edge) == edge.dest_id

BwdTarget(edge) == edge.src_id

CSREdgeHot(g, id, is_fwd) ==
    LET edge == get_edge(g, id)
    IN  [id |-> id,
         target |-> IF is_fwd THEN edge.dest_id ELSE BwdTarget(edge),
         weight |-> get_edge_metadata(g, edge).weight]

CSREdgeCold(g, id) ==
    LET edge == get_edge(g, id)
        metadata == get_edge_metadata(g, edge)
    IN  [id |-> id, from_node |-> edge.src_id, to_node |-> edge.dest_id,
         prev_edge |-> metadata.prev_edge, next_edge |-> metadata.next_edge]

\* the inner loop of from_preprocessed_graph: one row's edges
RECURSIVE PushEdges(_, _, _, _)
PushEdges(acc, g, ids, is_fwd) ==
    IF ids = << >> THEN acc
    ELSE LET new_index == Len(acc.values_hot)
         IN  PushEdges([acc EXCEPT
                           !.values_hot = Append(@, CSREdgeHot(g, Head(ids), is_fwd)),
                           !.values_cold = Append(@, CSREdgeCold(g, Head(ids))),
                           !.cols = Append(@, new_index)],
                       g, Tail(ids), is_fwd)

\* the outer loop closing each row with the length of values_hot
RECURSIVE PushRows_values(_, _, _, _, _)
PushRows_values(acc, g, lists, n, is_fwd) ==
    IF n >= NumNodes THEN acc
    ELSE LET a == PushEdges(acc, g, lists[n], is_fwd)
         IN  PushRows_values([a EXCEPT !.row_ptr = Append(@, Len(a.values_hot))],
                             g, lists, n + 1, is_fwd)

\* the outer loop: the rows of nodes n, n + 1, ... in dense order
RECURSIVE PushRows(_, _, _, _, _)
PushRows(acc, g, lists, n, is_fwd) ==
    IF n >= NumNodes THEN acc
    ELSE LET a == PushEdges(acc, g, lists[n], is_fwd)
         IN  PushRows([a EXCEPT !.row_ptr = Append(@, Len(a.cols))], g, lists, n + 1, is_fwd)

\* values_cold.par_sort_by(|e1, e2| e1.id.cmp(&e2.id)): a stable sort by id
RECURSIVE InsertById(_, _)
InsertById(sorted, x) ==
    IF sorted = << >> THEN << x >>
    ELSE IF Last(sorted).id <= x.id THEN Append(sorted, x)
    ELSE Append(InsertById(SubSeq(sorted, 1, Len(sorted) - 1), x), Last(sorted))

\* values_cold left in insertion order
SortById_unsorted(s) == s

RECURSIVE SortById(_)
SortById(s) ==
    IF s = << >> THEN << >>
    ELSE InsertById(SortById(SubSeq(s, 1, Len(s) - 1)), Last(s))

\* CSRGraph::from_preprocessed_graph
from_preprocessed_graph(g) ==
    LET f == PushRows([values_hot |-> << >>, values_cold |-> << >>,
                       cols |-> << >>, row_ptr |-> << 0 >>],
                      g, g.fwd_edge_list, 0, TRUE)
        b == PushRows([values_hot |-> f.values_hot, values_cold |-> f.values_cold,
                       cols |-> << >>, row_ptr |-> << 0 >>],
                      g, g.bwd_edge_list, 0, FALSE)
    IN  [cols_fwd |-> f.cols, row_fwd_ptr |-> f.row_ptr,
         cols_bwd |-> b.cols, row_bwd_ptr |-> b.row_ptr,
         values_hot |-> b.values_hot,
         values_cold |-> SortById(b.values_cold),
         nodes |-> [n \in Nodes |-> [id |-> g.nodes[n].dense_id, rank |-> g.nodes[n].rank]]]

\* the CSR before any graph is frozen
NoCSR ==
    [cols_fwd |-> << >>, row_fwd_ptr |-> << >>, cols_bwd |-> << >>, row_bwd_ptr |-> << >>,
     values_hot |-> << >>, values_cold |-> << >>,
     nodes |-> [n \in Nodes |-> [id |-> n, rank |-> 0]]]

\* cols[start .. end], 0-based and end-exclusive
Slice(cols, start, end) == SubSeq(cols, start + 1, end)

\* CSRGraph::fwd_neighbors / bwd_neighbors: the hot records of a row
fwd_neighbors(c, node) ==
    LET row == Slice(c.cols_fwd, c.row_fwd_ptr[node + 1], c.row_fwd_ptr[node + 2])
    IN  [k \in 1 .. Len(row) |-> c.values_hot[row[k] + 1]]

bwd_neighbors(c, node) ==
    LET row == Slice(c.cols_bwd, c.row_bwd_ptr[node + 1], c.row_bwd_ptr[node + 2])
    IN  [k \in 1 .. Len(row) |-> c.values_hot[row[k] + 1]]

\* CSRGraph::get_fwd_edge_cold / get_bwd_edge_cold
get_fwd_edge_cold(c, edge_id) == c.values_cold[edge_id * 2 + 1]

get_bwd_edge_cold(c, edge_id) == c.values_cold[edge_id * 2 + 1 + 1]

\* --------------------------------------------------------- bi_dir_dijkstra
\* the search state: forward_dist, backward_dist, forward_prev,
\* backward_prev, forward_queue, backward_queue, meeting_node
QueryStart(src, dest) ==
    [forward_dist |-> [[n \in Nodes |-> Inf] EXCEPT ![src] = 0],
     backward_dist |-> [[n \in Nodes |-> Inf] EXCEPT ![dest] = 0],
     forward_prev |-> [n \in Nodes |-> None],
     backward_prev |-> [n \in Nodes |-> None],
     forward_queue |-> PQPush(PQEmpty, src, 0),
     backward_queue |-> PQPush(PQEmpty, dest, 0),
     meeting_node |-> None]

\* the forward relaxation loop over the forward edges of u; it breaks at
\* the first neighbor the backward search has reached
RECURSIVE ForwardRelax(_, _, _, _)
ForwardRelax(q, g, u, ids) ==
    IF ids = << >> THEN q
    ELSE LET edge == get_edge(g, Head(ids))
             v == edge.dest_id
             weight == get_edge_metadata(g, edge).weight
             alt == Plus(q.forward_dist[u], weight)
             q1 == IF alt < q.forward_dist[v]
                   THEN [q EXCEPT !.forward_dist[v] = alt,
                                  !.forward_prev[v] = Some(u),
                                  !.forward_queue = PQPush(q.forward_queue, v, alt)]
                   ELSE q
         IN  IF g.nodes[v].rank < g.nodes[u].rank
             THEN ForwardRelax(q, g, u, Tail(ids))
             ELSE IF q1.backward_dist[v] # Inf
             THEN [q1 EXCEPT !.meeting_node = Some(v)]
             ELSE ForwardRelax(q1, g, u, Tail(ids))

RECURSIVE BackwardRelax(_, _, _, _)
BackwardRelax(q, g, u, ids) ==
    IF ids = << >> THEN q
    ELSE LET edge == get_edge(g, Head(ids))
             v == edge.src_id
             weight == get_edge_metadata(g, edge).weight
             alt == Plus(q.backward_dist[u], weight)
             q1 == IF alt < q.backward_dist[v]
                   THEN [q EXCEPT !.backward_dist[v] = alt,
                                  !.backward_prev[v] = Some(u),
                                  !.backward_queue = PQPush(q.backward_queue, v, alt)]
                   ELSE q
         IN  IF g.nodes[v].rank < g.nodes[u].rank
             THEN BackwardRelax(q, g, u, Tail(ids))
             ELSE IF q1.forward_dist[v] # Inf
             THEN [q1 EXCEPT !.meeting_node = Some(v)]
             ELSE BackwardRelax(q1, g, u, Tail(ids))

\* the while loop: a forward pop, a backward pop, then the meeting test
RECURSIVE QueryLoop(_, _)
QueryLoop(q, g) ==
    IF PQLen(q.forward_queue) = 0 \/ PQLen(q.backward_queue) = 0 THEN q
    ELSE LET uf == PQTop(q.forward_queue)
             qf == ForwardRelax([q EXCEPT !.forward_queue = PQPop(q.forward_queue)],
                                g, uf, get_fwd_neighbors(g, uf))
             ub == PQTop(qf.backward_queue)
             qb == BackwardRelax([qf EXCEPT !.backward_queue = PQPop(qf.backward_queue)],
                                 g, ub, get_bwd_neighbors(g, ub))
         IN  IF IsSome(qb.meeting_node) THEN qb ELSE QueryLoop(qb, g)

\* the chain of predecessors from a node: prev, prev of prev, ...
RECURSIVE PrevChain(_, _)
PrevChain(prev, current) ==
    IF prev[current] = None THEN << >>
    ELSE << Unwrap(prev[current]) >> \o PrevChain(prev, Unwrap(prev[current]))

Reverse(s) == [k \in 1 .. Len(s) |-> s[Len(s) + 1 - k]]

\* the path built from the meeting node
QueryPath(q, node) ==
    Reverse(PrevChain(q.forward_prev, node)) \o PrevChain(q.backward_prev, node)

\* bi_dir_dijkstra answering an empty path where no meeting node was found
bi_dir_dijkstra_empty(g, src, dest) ==
    LET q == QueryLoop(QueryStart(src, dest), g)
    IN  Some(IF IsSome(q.meeting_node) THEN QueryPath(q, Unwrap(q.meeting_node)) ELSE << >>)

\* bi_dir_dijkstra(overlay, src, dest): None, or Some(path)
bi_dir_dijkstra(g, src, dest) ==
    LET q == QueryLoop(QueryStart(src, dest), g)
    IN  IF IsSome(q.meeting_node)
        THEN Some(QueryPath(q, Unwrap(q.meeting_node)))
        ELSE None

\* --------------------------------------------------------- ShortcutVisitor
\* CSRGraph::fwd_neighbors_cold / bwd_neighbors_cold: the pairs
\* (value index, cold record at that index) of a row
fwd_neighbors_cold(c, node) ==
    LET row == Slice(c.cols_fwd, c.row_fwd_ptr[node + 1], c.row_fwd_ptr[node + 2])
    IN  [k \in 1 .. Len(row) |-> [edge_id |-> row[k], cold |-> c.values_cold[row[k] + 1]]]

bwd_neighbors_cold(c, node) ==
    LET row == Slice(c.cols_bwd, c.row_bwd_ptr[node + 1], c.row_bwd_ptr[node + 2])
    IN  [k \in 1 .. Len(row) |-> [edge_id |-> row[k], cold |-> c.values_cold[row[k] + 1]]]

\* edge.via_node: the node a shortcut bypasses, the head of its prev_edge
via_node(c, cold) ==
    IF cold.prev_edge = None THEN None
    ELSE Some(get_fwd_edge_cold(c, Unwrap(cold.prev_edge)).to_node)

\* find_map over a row: the record values_cold[edge_id] of the first pair
\* whose cold record has the wanted endpoint
RECURSIVE FindMap(_, _, _, _)
FindMap(c, row, field, wanted) ==
    IF row = << >> THEN None
    ELSE IF (IF field = "to_node" THEN Head(row).cold.to_node
             ELSE Head(row).cold.from_node) = wanted
    THEN Some(c.values_cold[Head(row).edge_id + 1])
    ELSE FindMap(c, Tail(row), field, wanted)

\* out.push(node) unless node is out.last()
PushNode(out, node) ==
    IF Len(out) > 0 /\ Last(out) = node THEN out ELSE Append(out, node)

\* the depth of recursion the call stack allows
MaxDepth == 6

\* ShortcutVisitor::visit_shortcut; r carries the out vector and whether
\* the call has panicked (todo!) or exhausted the stack
RECURSIVE visit_shortcut(_, _, _, _, _)
visit_shortcut(c, edge, r, is_fwd, depth) ==
    LET via == via_node(c, edge)
    IN  IF r.status # "ok" THEN r
        ELSE IF depth > MaxDepth THEN [r EXCEPT !.status = "overflow"]
        ELSE IF via = None THEN r
        ELSE IF is_fwd
        THEN LET r0 == [r EXCEPT !.out = PushNode(r.out, edge.from_node)]
                 u_to_via == FindMap(c, fwd_neighbors_cold(c, edge.from_node),
                                     "to_node", Unwrap(via))
                 r1 == IF IsSome(u_to_via)
                       THEN visit_shortcut(c, Unwrap(u_to_via), r0, is_fwd, depth + 1)
                       ELSE [r0 EXCEPT !.status = "panic"]
                 via_to_v == FindMap(c, fwd_neighbors_cold(c, Unwrap(via)),
                                     "to_node", edge.to_node)
                 r2 == IF r1.status # "ok" THEN r1
                       ELSE IF IsSome(via_to_v)
                       THEN visit_shortcut(c, Unwrap(via_to_v), r1, is_fwd, depth + 1)
                       ELSE [r1 EXCEPT !.status = "panic"]
             IN  IF r2.status # "ok" THEN r2
                 ELSE [r2 EXCEPT !.out = PushNode(r2.out, edge.to_node)]
        ELSE LET r0 == [r EXCEPT !.out = PushNode(r.out, edge.to_node)]
                 v_to_via == FindMap(c, bwd_neighbors_cold(c, edge.to_node),
                                     "from_node", Unwrap(via))
                 r1 == IF IsSome(v_to_via)
                       THEN visit_shortcut(c, Unwrap(v_to_via), r0, is_fwd, depth + 1)
                       ELSE [r0 EXCEPT !.status = "panic"]
                 via_to_u == FindMap(c, bwd_neighbors_cold(c, Unwrap(via)),
                                     "from_node", edge.from_node)
                 r2 == IF r1.status # "ok" THEN r1
                       ELSE IF IsSome(via_to_u)
                       THEN visit_shortcut(c, Unwrap(via_to_u), r1, is_fwd, depth + 1)
                       ELSE r1
             IN  IF r2.status # "ok" THEN r2
                 ELSE [r2 EXCEPT !.out = PushNode(r2.out, edge.from_node)]

\* ShortcutVisitor::visit: every packed entry in order
RECURSIVE VisitFrom(_, _, _)
VisitFrom(c, packed_path, r) ==
    IF packed_path = << >> THEN r
    ELSE VisitFrom(c, Tail(packed_path),
                   visit_shortcut(c, c.values_cold[Head(packed_path).edge_id + 1],
                                  r, Head(packed_path).is_fwd, 0))

visit(c, packed_path) == VisitFrom(c, packed_path, [out |-> << >>, status |-> "ok"])

\* ------------------------------------------------------------ packed paths
\* one round of relaxation of every edge of g from the distances dist
RelaxAll(g, dist) ==
    [v \in Nodes |->
        LET cand == { Plus(dist[get_edge(g, id).src_id], EdgeWeight(g, id)) :
                         id \in { i \in 0 .. (num_edges(g) - 1) : get_edge(g, i).dest_id = v } }
                    \cup { dist[v] }
        IN  CHOOSE m \in cand : \A x \in cand : m <= x]

RECURSIVE RelaxRounds(_, _, _)
RelaxRounds(g, dist, rounds) ==
    IF rounds = 0 THEN dist ELSE RelaxRounds(g, RelaxAll(g, dist), rounds - 1)

\* the weight of a shortest path from src to dest over the edges of g; Inf
\* when dest cannot be reached
ShortestDist(g, src, dest) ==
    RelaxRounds(g, [[n \in Nodes |-> Inf] EXCEPT ![src] = 0], NumNodes - 1)[dest]

\* the overlay edge a value index of the snapshot stands for
EdgeOfValue(c, g, idx) == get_edge(g, c.values_hot[idx + 1].id)

\* the entries a query can emit: forward entries are upward edges from the
\* forward rows, backward entries are downward edges from the backward rows
PackedEntries(c, g) ==
    { [edge_id |-> idx, is_fwd |-> TRUE] : idx \in Range(c.cols_fwd) }
    \cup { [edge_id |-> idx, is_fwd |-> FALSE] : idx \in Range(c.cols_bwd) }

UpDown(c, g, e) ==
    LET edge == EdgeOfValue(c, g, e.edge_id)
    IN  IF e.is_fwd
        THEN g.nodes[edge.dest_id].rank >= g.nodes[edge.src_id].rank
        ELSE g.nodes[edge.src_id].rank >= g.nodes[edge.dest_id].rank

PackedWeight(c, p) == SeqSum([k \in 1 .. Len(p) |-> c.values_hot[p[k].edge_id + 1].weight])

PackedSource(c, g, p) == EdgeOfValue(c, g, p[1].edge_id).src_id

PackedTarget(c, g, p) == EdgeOfValue(c, g, p[Len(p)].edge_id).dest_id

\* the packed paths a query returns on the snapshot: forward entries from
\* the source up to the meeting node, then backward entries down to the
\* target, consecutive edges joined head to tail, of shortest weight
PackedPaths(c, g, orig) ==
    { p \in UNION { [1 .. n -> PackedEntries(c, g)] : n \in 1 .. MaxPacked } :
        /\ \A k \in 1 .. Len(p) : UpDown(c, g, p[k])
        /\ \A k \in 1 .. (Len(p) - 1) :
              /\ EdgeOfValue(c, g, p[k].edge_id).dest_id
                    = EdgeOfValue(c, g, p[k + 1].edge_id).src_id
              /\ p[k + 1].is_fwd => p[k].is_fwd
        /\ PackedWeight(c, p) = ShortestDist(orig, PackedSource(c, g, p), PackedTarget(c, g, p)) }

\* ------------------------------------------------------------------- input
\* The road networks the model is run on: at most MaxWays ways, at most one
\* way per unordered pair of end nodes (a closed way has both ends at one
\* node), each way one-way in either direction or two-way, with a weight in
\* 1 .. MaxWeight.
Pairs == { p \in Nodes \X Nodes : p[1] <= p[2] }

WayOptions == [dir : {"fwd", "rev", "both"}, weight : 1 .. MaxWeight]

PairLess(p, r) == p[1] < r[1] \/ (p[1] = r[1] /\ p[2] < r[2])

MinPair(S) == CHOOSE p \in S : \A r \in S : r = p \/ PairLess(p, r)

WayOf(p, o) ==
    [curr |-> IF o.dir = "rev" THEN p[2] ELSE p[1],
     next |-> IF o.dir = "rev" THEN p[1] ELSE p[2],
     weight |-> o.weight,
     is_oneway |-> o.dir # "both"]

\* the ways of a choice, in way-ID order (the order of maps.ways.values())
RECURSIVE WaysOf(_, _)
WaysOf(S, f) ==
    IF S = {} THEN << >>
    ELSE LET p == MinPair(S) IN << WayOf(p, f[p]) >> \o WaysOf(S \ {p}, f)

\* ------------------------------------------------------------------- state
VARIABLES
    variant,     \* which contract_graph runs: "seq" (routing-engine) or "par"
    original,    \* the graph built from the input (kept for reference)
    graph,       \* contract_graph's shrinking graph
    overlay,     \* contract_graph's overlay
    dijkstra,    \* the reusable witness searcher
    queue,       \* contract_graph's priority queue: item = node, key = importance
    pc,          \* position in contract_graph
    ranked,      \* nodes pushed by the initial ranking loop
    cg,          \* locals of the running iteration of contract_graph
    order,       \* the nodes popped so far, in order
    csr,         \* the CSR snapshot frozen from the overlay
    query,       \* the query served on the contracted overlay, if any
    unpacked,    \* the packed path unpacked on the snapshot, if any
    builder,     \* build_edge_lists: the ways left and the ways built
    probe        \* the witness searcher driven alone: its init and last search

vars ==
    << variant, original, graph, overlay, dijkstra, queue, pc, ranked, cg, order,
       csr, query, unpacked, builder, probe >>

serving == << csr, query, unpacked >>

NoBuilder == [ways |-> << >>, built |-> << >>]

NoProbe ==
    [src |-> 0, ignore |-> 0, dest |-> 0, weight |-> Inf, calls |-> 0,
     max_hops |-> 0, pops |-> 0, fresh |-> Inf,
     limit_weight |-> 0, local |-> None]

NoQuery == [src |-> 0, dest |-> 0, result |-> None, served |-> FALSE]

NoUnpack == [packed_path |-> << >>, out |-> << >>, status |-> "idle"]

IdleLocals ==
    [contracted_id |-> 0, neighbor_rank |-> 0,
     fwd_indices |-> << >>, bwd_indices |-> << >>, bi |-> 1, fi |-> 1,
     nbrs |-> << >>, ni |-> 1]

\* the state of contract_graph as one value
Cur ==
    [variant |-> variant, graph |-> graph, overlay |-> overlay, dijkstra |-> dijkstra,
     queue |-> queue, pc |-> pc, ranked |-> ranked, cg |-> cg, order |-> order]

SetState(S) ==
    /\ variant' = S.variant
    /\ graph' = S.graph
    /\ overlay' = S.overlay
    /\ dijkstra' = S.dijkstra
    /\ queue' = S.queue
    /\ pc' = S.pc
    /\ ranked' = S.ranked
    /\ cg' = S.cg
    /\ order' = S.order

\* main: graph built by from_osmpbf, overlay = graph.clone(),
\* dijkstra = Dijkstra::new(num_nodes), then contract_graph is entered
EntryState(v, g) ==
    [variant |-> v, graph |-> g, overlay |-> g, dijkstra |-> NewDijkstra,
     queue |-> PQEmpty, pc |-> "rank", ranked |-> {}, cg |-> IdleLocals,
     order |-> << >>]

InitWith(v, max_ways) ==
    \E S \in SUBSET Pairs :
        /\ Cardinality(S) <= max_ways
        /\ \E f \in [S -> WayOptions] :
              /\ original = build_edge_lists(WaysOf(S, f))
              /\ graph = original
              /\ overlay = original
        /\ variant = v
        /\ dijkstra = NewDijkstra
        /\ queue = PQEmpty
        /\ pc = "rank"
        /\ ranked = {}
        /\ cg = IdleLocals
        /\ order = << >>
        /\ csr = NoCSR
        /\ query = NoQuery
        /\ unpacked = NoUnpack
        /\ builder = NoBuilder
        /\ probe = NoProbe

\* ----------------------------------------------------------- contract_graph
\* hop budgets of the witness searches: 500 in routing-engine; in the
\* parallel version graph.num_nodes() / 2 for rank_node and
\* graph.num_edges() / 2 for contract_node
RankHops(S) == IF S.variant = "seq" THEN MaxHops ELSE NumNodes \div 2

ContractHops(S) == IF S.variant = "seq" THEN MaxHops ELSE num_edges(S.graph) \div 2

\* one turn of the initial ranking loop, for node id: rank_node on the
\* overlay and queue.push.  The sequential loop uses the shared searcher; a
\* parallel worker uses a searcher of its own.
RankPush(S, id) ==
    LET r == rank_node(S.overlay, IF S.variant = "seq" THEN S.dijkstra ELSE NewDijkstra,
                       id, RankHops(S))
        done == S.ranked \cup {id}
    IN  [S EXCEPT !.queue = PQPush(S.queue, id, r.rank),
                  !.dijkstra = IF S.variant = "seq" THEN r.d ELSE S.dijkstra,
                  !.ranked = done,
                  !.pc = IF done = Nodes THEN "pop" ELSE "rank"]

\* the next node of the sequential loop (dense order)
NextUnranked(S) == CHOOSE n \in Nodes \ S.ranked : \A m \in Nodes \ S.ranked : n <= m

\* queue.pop(), neighbor_rank, and the entry of contract_node (the clones of
\* the contracted node's adjacency lists in the shrinking graph)
PopStep(S) ==
    LET contracted_id == PQTop(S.queue)
    IN  [S EXCEPT !.queue = PQPop(S.queue),
                  !.cg = [IdleLocals EXCEPT
                             !.contracted_id = contracted_id,
                             !.neighbor_rank = S.overlay.nodes[contracted_id].rank + 1,
                             !.fwd_indices = get_fwd_neighbors(S.graph, contracted_id),
                             !.bwd_indices = get_bwd_neighbors(S.graph, contracted_id)],
                  !.order = Append(S.order, contracted_id),
                  !.pc = "contract"]

\* contract_node running the search for every pair, also when w, v and the
\* contracted node are not three distinct nodes
ContractPairStep_every_pair(S) ==
    LET c == S.cg
        node_id == c.contracted_id
        bwd_edge_index == c.bwd_indices[c.bi]
        bwd_edge == get_edge(S.graph, bwd_edge_index)
        w == bwd_edge.src_id
        d0 == IF c.fi = 1 THEN init(S.dijkstra, w, node_id) ELSE S.dijkstra
        lastFwd == c.fi >= Len(c.fwd_indices)
        c1 == [c EXCEPT !.bi = IF lastFwd THEN c.bi + 1 ELSE c.bi,
                        !.fi = IF lastFwd THEN 1 ELSE c.fi + 1]
    IN  IF c.fwd_indices = << >>
        THEN [S EXCEPT !.cg = c1, !.dijkstra = d0]
        ELSE LET fwd_edge_index == c.fwd_indices[c.fi]
                 fwd_edge == get_edge(S.graph, fwd_edge_index)
                 v == fwd_edge.dest_id
                 weight_v_u == get_edge_metadata(S.overlay, bwd_edge).weight
                 weight_u_w == get_edge_metadata(S.overlay, fwd_edge).weight
                 combined_weight == weight_v_u + weight_u_w
                 r == search(d0, S.graph, v, combined_weight, ContractHops(S))
             IN  IF FALSE
                 THEN [S EXCEPT !.cg = c1, !.dijkstra = d0]
                 ELSE IF r.weight > combined_weight
                 THEN [S EXCEPT !.cg = c1, !.dijkstra = r.d,
                                !.overlay = add_shortcut(S.overlay, w, v, combined_weight,
                                                         bwd_edge_index, fwd_edge_index),
                                !.graph = add_shortcut(S.graph, w, v, combined_weight,
                                                       bwd_edge_index, fwd_edge_index)]
                 ELSE [S EXCEPT !.cg = c1, !.dijkstra = r.d]

\* contract_node inserting the shortcut also when the witness weighs as much
\* as the two edges
ContractPairStep_witness_equal(S) ==
    LET c == S.cg
        node_id == c.contracted_id
        bwd_edge_index == c.bwd_indices[c.bi]
        bwd_edge == get_edge(S.graph, bwd_edge_index)
        w == bwd_edge.src_id
        d0 == IF c.fi = 1 THEN init(S.dijkstra, w, node_id) ELSE S.dijkstra
        lastFwd == c.fi >= Len(c.fwd_indices)
        c1 == [c EXCEPT !.bi = IF lastFwd THEN c.bi + 1 ELSE c.bi,
                        !.fi = IF lastFwd THEN 1 ELSE c.fi + 1]
    IN  IF c.fwd_indices = << >>
        THEN [S EXCEPT !.cg = c1, !.dijkstra = d0]
        ELSE LET fwd_edge_index == c.fwd_indices[c.fi]
                 fwd_edge == get_edge(S.graph, fwd_edge_index)
                 v == fwd_edge.dest_id
                 weight_v_u == get_edge_metadata(S.overlay, bwd_edge).weight
                 weight_u_w == get_edge_metadata(S.overlay, fwd_edge).weight
                 combined_weight == weight_v_u + weight_u_w
                 r == search(d0, S.graph, v, combined_weight, ContractHops(S))
             IN  IF v = w \/ v = node_id \/ w = node_id
                 THEN [S EXCEPT !.cg = c1, !.dijkstra = d0]
                 ELSE IF r.weight >= combined_weight
                 THEN [S EXCEPT !.cg = c1, !.dijkstra = r.d,
                                !.overlay = add_shortcut(S.overlay, w, v, combined_weight,
                                                         bwd_edge_index, fwd_edge_index),
                                !.graph = add_shortcut(S.graph, w, v, combined_weight,
                                                       bwd_edge_index, fwd_edge_index)]
                 ELSE [S EXCEPT !.cg = c1, !.dijkstra = r.d]

\* contract_node pushing the shortcut into the overlay alone
ContractPairStep_overlay_only(S) ==
    LET c == S.cg
        node_id == c.contracted_id
        bwd_edge_index == c.bwd_indices[c.bi]
        bwd_edge == get_edge(S.graph, bwd_edge_index)
        w == bwd_edge.src_id
        d0 == IF c.fi = 1 THEN init(S.dijkstra, w, node_id) ELSE S.dijkstra
        lastFwd == c.fi >= Len(c.fwd_indices)
        c1 == [c EXCEPT !.bi = IF lastFwd THEN c.bi + 1 ELSE c.bi,
                        !.fi = IF lastFwd THEN 1 ELSE c.fi + 1]
    IN  IF c.fwd_indices = << >>
        THEN [S EXCEPT !.cg = c1, !.dijkstra = d0]
        ELSE LET fwd_edge_index == c.fwd_indices[c.fi]
                 fwd_edge == get_edge(S.graph, fwd_edge_index)
                 v == fwd_edge.dest_id
                 weight_v_u == get_edge_metadata(S.overlay, bwd_edge).weight
                 weight_u_w == get_edge_metadata(S.overlay, fwd_edge).weight
                 combined_weight == weight_v_u + weight_u_w
                 r == search(d0, S.graph, v, combined_weight, ContractHops(S))
             IN  IF v = w \/ v = node_id \/ w = node_id
                 THEN [S EXCEPT !.cg = c1, !.dijkstra = d0]
                 ELSE IF r.weight > combined_weight
                 THEN [S EXCEPT !.cg = c1, !.dijkstra = r.d,
                                !.overlay = add_shortcut(S.overlay, w, v, combined_weight,
                                                         bwd_edge_index, fwd_edge_index)]
                 ELSE [S EXCEPT !.cg = c1, !.dijkstra = r.d]

\* contract_node: one turn of the inner loop, for the pair
\* (bwd_indices[bi], fwd_indices[fi]); dijkstra.init runs when the turn opens
\* a new backward edge
ContractPairStep(S) ==
    LET c == S.cg
        node_id == c.contracted_id
        bwd_edge_index == c.bwd_indices[c.bi]
        bwd_edge == get_edge(S.graph, bwd_edge_index)
        w == bwd_edge.src_id
        d0 == IF c.fi = 1 THEN init(S.dijkstra, w, node_id) ELSE S.dijkstra
        lastFwd == c.fi >= Len(c.fwd_indices)
        c1 == [c EXCEPT !.bi = IF lastFwd THEN c.bi + 1 ELSE c.bi,
                        !.fi = IF lastFwd THEN 1 ELSE c.fi + 1]
    IN  IF c.fwd_indices = << >>
        THEN [S EXCEPT !.cg = c1, !.dijkstra = d0]
        ELSE LET fwd_edge_index == c.fwd_indices[c.fi]
                 fwd_edge == get_edge(S.graph, fwd_edge_index)
                 v == fwd_edge.dest_id
                 weight_v_u == get_edge_metadata(S.overlay, bwd_edge).weight
                 weight_u_w == get_edge_metadata(S.overlay, fwd_edge).weight
                 combined_weight == weight_v_u + weight_u_w
                 r == search(d0, S.graph, v, combined_weight, ContractHops(S))
             IN  IF v = w \/ v = node_id \/ w = node_id
                 THEN [S EXCEPT !.cg = c1, !.dijkstra = d0]
                 ELSE IF r.weight > combined_weight
                 THEN [S EXCEPT !.cg = c1, !.dijkstra = r.d,
                                !.overlay = add_shortcut(S.overlay, w, v, combined_weight,
                                                         bwd_edge_index, fwd_edge_index),
                                !.graph = add_shortcut(S.graph, w, v, combined_weight,
                                                       bwd_edge_index, fwd_edge_index)]
                 ELSE [S EXCEPT !.cg = c1, !.dijkstra = r.d]

\* contract_node returned: the overlay's adjacency of the contracted node is
\* copied; routing-engine chains bwd_neighbors with fwd_neighbors, the
\* parallel version fwd_neighbors with bwd_neighbors
StartRerankStep(S) ==
    LET b == get_bwd_neighbors(S.overlay, S.cg.contracted_id)
        f == get_fwd_neighbors(S.overlay, S.cg.contracted_id)
    IN  [S EXCEPT !.cg.nbrs = IF S.variant = "seq" THEN b \o f ELSE f \o b,
                  !.cg.ni = 1,
                  !.pc = "rerank"]

\* one turn of the neighbor loop: rank_node, raise_rank, change_priority
RerankNeighborStep(S) ==
    LET edge == get_edge(S.overlay, S.cg.nbrs[S.cg.ni])
        neighbor_id == IF edge.src_id = S.cg.contracted_id
                       THEN edge.dest_id ELSE edge.src_id
        r == rank_node(S.overlay, S.dijkstra, neighbor_id, RankHops(S))
    IN  [S EXCEPT !.dijkstra = r.d,
                  !.overlay = raise_rank(S.overlay, neighbor_id, S.cg.neighbor_rank),
                  !.queue = PQChangePriority(S.queue, neighbor_id, r.rank),
                  !.cg.ni = S.cg.ni + 1]

\* the end of the iteration with the removal applied to the overlay as well
RemoveEdgesStep_overlay(S) ==
    [S EXCEPT !.graph = remove_edges_from_neighbors(S.graph, S.cg.contracted_id),
              !.overlay = remove_edges_from_neighbors(S.overlay, S.cg.contracted_id),
              !.cg = [IdleLocals EXCEPT !.contracted_id = S.cg.contracted_id],
              !.pc = "pop"]

\* the end of the iteration: remove_edges_from_neighbors on the shrinking graph
RemoveEdgesStep(S) ==
    [S EXCEPT !.graph = remove_edges_from_neighbors(S.graph, S.cg.contracted_id),
              !.cg = [IdleLocals EXCEPT !.contracted_id = S.cg.contracted_id],
              !.pc = "pop"]

\* queue.pop() returned None: contract_graph returns
FinishStep(S) == [S EXCEPT !.pc = "done"]

\* the step contract_graph takes from S when its ranking loop runs in dense
\* order
SeqStep(S) ==
    CASE S.pc = "rank" -> RankPush(S, NextUnranked(S))
      [] S.pc = "pop" /\ PQLen(S.queue) > 0 -> PopStep(S)
      [] S.pc = "pop" /\ PQLen(S.queue) = 0 -> FinishStep(S)
      [] S.pc = "contract" /\ S.cg.bi <= Len(S.cg.bwd_indices) -> ContractPairStep(S)
      [] S.pc = "contract" /\ S.cg.bi > Len(S.cg.bwd_indices) -> StartRerankStep(S)
      [] S.pc = "rerank" /\ S.cg.ni <= Len(S.cg.nbrs) -> RerankNeighborStep(S)
      [] S.pc = "rerank" /\ S.cg.ni > Len(S.cg.nbrs) -> RemoveEdgesStep(S)
      [] OTHER -> S

\* contract_graph run to its return
RECURSIVE contract_graph(_)
contract_graph(S) == IF S.pc = "done" THEN S ELSE contract_graph(SeqStep(S))

\* ----------------------------------------------------------------- actions
RankStep ==
    /\ pc = "rank"
    /\ variant = "seq"
    /\ SetState(RankPush(Cur, NextUnranked(Cur)))
    /\ UNCHANGED << original, serving, builder, probe >>

\* a parallel worker's push: any node not yet pushed
RankWorker ==
    /\ pc = "rank"
    /\ variant = "par"
    /\ \E id \in Nodes \ ranked : SetState(RankPush(Cur, id))
    /\ UNCHANGED << original, serving, builder, probe >>

Pop ==
    /\ pc = "pop"
    /\ PQLen(queue) > 0
    /\ SetState(PopStep(Cur))
    /\ UNCHANGED << original, serving, builder, probe >>

ContractPair ==
    /\ pc = "contract"
    /\ cg.bi <= Len(cg.bwd_indices)
    /\ SetState(ContractPairStep(Cur))
    /\ UNCHANGED << original, serving, builder, probe >>

StartRerank ==
    /\ pc = "contract"
    /\ cg.bi > Len(cg.bwd_indices)
    /\ SetState(StartRerankStep(Cur))
    /\ UNCHANGED << original, serving, builder, probe >>

RerankNeighbor ==
    /\ pc = "rerank"
    /\ cg.ni <= Len(cg.nbrs)
    /\ SetState(RerankNeighborStep(Cur))
    /\ UNCHANGED << original, serving, builder, probe >>

RemoveEdges ==
    /\ pc = "rerank"
    /\ cg.ni > Len(cg.nbrs)
    /\ SetState(RemoveEdgesStep(Cur))
    /\ UNCHANGED << original, serving, builder, probe >>

Finish ==
    /\ pc = "pop"
    /\ PQLen(queue) = 0
    /\ SetState(FinishStep(Cur))
    /\ UNCHANGED << original, serving, builder, probe >>

contraction ==
    << variant, original, graph, overlay, dijkstra, queue, ranked, cg, order, builder,
       probe >>

\* main: CSRGraph::from_preprocessed_graph(&overlay) once contract_graph
\* has returned
Freeze ==
    /\ pc = "done"
    /\ csr' = from_preprocessed_graph(overlay)
    /\ pc' = "frozen"
    /\ UNCHANGED << contraction, query, unpacked >>

\* one call of bi_dir_dijkstra on the contracted overlay
Query ==
    /\ pc = "frozen"
    /\ ~query.served
    /\ unpacked.status = "idle"
    /\ \E src \in Nodes, dest \in Nodes :
          query' = [src |-> src, dest |-> dest,
                    result |-> bi_dir_dijkstra(overlay, src, dest), served |-> TRUE]
    /\ UNCHANGED << contraction, pc, csr, unpacked >>

\* one call of ShortcutVisitor::visit on a packed path of the snapshot
Unpack ==
    /\ pc = "frozen"
    /\ ~query.served
    /\ unpacked.status = "idle"
    /\ \E packed_path \in PackedPaths(csr, overlay, original) :
          LET r == visit(csr, packed_path)
          IN  unpacked' = [packed_path |-> packed_path, out |-> r.out, status |-> r.status]
    /\ UNCHANGED << contraction, pc, csr, query >>

Init == InitWith("seq", MaxWays)

Next ==
    \/ RankStep
    \/ Pop
    \/ ContractPair
    \/ StartRerank
    \/ RerankNeighbor
    \/ RemoveEdges
    \/ Finish
    \/ Freeze
    \/ Query
    \/ Unpack

Spec == Init /\ [][Next]_vars

InitPar == InitWith("par", MaxWaysPar)

NextPar ==
    \/ RankWorker
    \/ Pop
    \/ ContractPair
    \/ StartRerank
    \/ RerankNeighbor
    \/ RemoveEdges
    \/ Finish

SpecPar == InitPar /\ [][NextPar]_vars

\* ---------------------------------------------------------------------
\* The edge-list builder on way data, one way per step.
BuildRefs == UNION { [1 .. n -> 0 .. (BuildNodes - 1)] : n \in 0 .. MaxRefs }

WayData ==
    [is_roundabout : BOOLEAN, is_oneway : BOOLEAN, refs : BuildRefs,
     weight : 1 .. MaxWeight]

\* node_count of create_intersections_map: occurrences of a node in the refs
\* of all the ways
RECURSIVE node_count(_, _)
node_count(ways, node) ==
    IF ways = << >> THEN 0
    ELSE Count(Head(ways).refs, node) + node_count(Tail(ways), node)

\* intersections_map.get_vec(way): the refs of the way whose node is counted
\* more than once, None when there is none
create_intersections_map(ways, i) ==
    LET RECURSIVE Filter(_)
        Filter(refs) ==
            IF refs = << >> THEN << >>
            ELSE IF node_count(ways, Head(refs)) > 1
                 THEN << Head(refs) >> \o Filter(Tail(refs))
                 ELSE Filter(Tail(refs))
        nodes == Filter(ways[i].refs)
    IN  IF nodes = << >> THEN None ELSE Some(nodes)

InitBuild ==
    /\ variant = "seq"
    /\ original = EmptyGraph
    /\ graph = EmptyGraph
    /\ overlay = EmptyGraph
    /\ dijkstra = NewDijkstra
    /\ queue = PQEmpty
    /\ pc = "build"
    /\ ranked = {}
    /\ cg = IdleLocals
    /\ order = << >>
    /\ csr = NoCSR
    /\ query = NoQuery
    /\ unpacked = NoUnpack
    /\ probe = NoProbe
    /\ \E ways \in UNION { [1 .. n -> WayData] : n \in 1 .. MaxBuildWays } :
           builder = [ways |-> ways, built |-> << >>]

\* the way the loop of build_edge_lists is at
WayIndex == Len(builder.built) + 1

HasWay == pc = "build" /\ WayIndex <= Len(builder.ways)

way_data == builder.ways[WayIndex]

Built(g) ==
    /\ original' = g
    /\ builder' = [builder EXCEPT !.built =
           Append(@, [first_edge |-> num_edges(original),
                      first_metadata |-> Len(original.edge_metadata)])]
    /\ UNCHANGED << variant, graph, overlay, dijkstra, queue, pc, ranked, cg,
                    order, serving, probe >>

SkipEmptyWay ==
    /\ HasWay
    /\ way_data.refs = << >>
    /\ Built(original)

BuildRoundabout ==
    /\ HasWay
    /\ way_data.refs # << >>
    /\ way_data.is_roundabout
    /\ Built(build_roundabout(original, way_data, way_data.refs))

BuildIntersections ==
    /\ HasWay
    /\ way_data.refs # << >>
    /\ ~way_data.is_roundabout
    /\ LET osm_ids == create_intersections_map(builder.ways, WayIndex)
       IN  /\ IsSome(osm_ids)
           /\ Built(build_intersections(original, way_data, Unwrap(osm_ids)))

BuildEndpoints ==
    /\ HasWay
    /\ way_data.refs # << >>
    /\ ~way_data.is_roundabout
    /\ ~IsSome(create_intersections_map(builder.ways, WayIndex))
    /\ Built(build_endpoints(original, way_data))

NextBuild ==
    \/ SkipEmptyWay
    \/ BuildRoundabout
    \/ BuildIntersections
    \/ BuildEndpoints

SpecBuild == InitBuild /\ [][NextBuild]_vars


\* ------------------------------------------------------------- properties
EdgeIds(g) == 0 .. (num_edges(g) - 1)

IsShortcut(g, id) == IsSome(get_edge_metadata(g, get_edge(g, id)).prev_edge)

\* edge id of g is listed in both adjacency lists it belongs to
Listed(g, id) ==
    /\ id \in Range(g.fwd_edge_list[get_edge(g, id).src_id])
    /\ id \in Range(g.bwd_edge_list[get_edge(g, id).dest_id])

NoDuplicates(s) == \A j, k \in 1 .. Len(s) : s[j] = s[k] => j = k

ShortcutSound(g) ==
    \A id \in EdgeIds(g) :
        LET edge == get_edge(g, id)
            metadata == get_edge_metadata(g, edge)
        IN  IsSome(metadata.prev_edge) =>
               /\ IsSome(metadata.next_edge)
               /\ metadata.weight = EdgeWeight(g, Unwrap(metadata.prev_edge))
                                    + EdgeWeight(g, Unwrap(metadata.next_edge))
               /\ get_edge(g, Unwrap(metadata.prev_edge)).src_id = edge.src_id
               /\ get_edge(g, Unwrap(metadata.next_edge)).dest_id = edge.dest_id

\* C3: at every point during contraction every shortcut w -> v of weight c,
\* in the shrinking graph and in the overlay, has c = weight(prev_edge) +
\* weight(next_edge), src(prev_edge) = w and dest(next_edge) = v.
C3_ShortcutSoundness == ShortcutSound(graph) /\ ShortcutSound(overlay)

\* contraction is still running and a shortcut packs another shortcut
C3_Witness ==
    /\ pc = "contract"
    /\ \E id \in EdgeIds(graph) :
          /\ IsShortcut(graph, id)
          /\ IsShortcut(graph, Unwrap(get_edge_metadata(graph, get_edge(graph, id)).prev_edge))

Coherent(g) ==
    /\ \A id \in EdgeIds(g) :
          id \in Range(g.fwd_edge_list[get_edge(g, id).src_id])
             <=> id \in Range(g.bwd_edge_list[get_edge(g, id).dest_id])
    /\ \A n \in Nodes : NoDuplicates(g.fwd_edge_list[n]) /\ NoDuplicates(g.bwd_edge_list[n])

\* C4: after every step of contract_graph, in the shrinking graph and in the
\* overlay, an edge ID is in fwd_adj[src] iff it is in bwd_adj[dest], and no
\* adjacency list holds an edge ID twice.
C4_AdjacencyCoherence == Coherent(graph) /\ Coherent(overlay)

\* a shortcut has been inserted and a contracted node's edges removed, while
\* the shrinking graph still lists some edge
C4_Witness ==
    /\ pc = "pop"
    /\ \E id \in EdgeIds(graph) : IsShortcut(graph, id) /\ Listed(graph, id)
    /\ \E id \in EdgeIds(graph) : ~Listed(graph, id)

\* C8: whenever several queued nodes share the minimum importance, the node
\* contract_graph pops is the one of smallest dense_id.
C8_TieBreakByDenseId ==
    (pc = "pop" /\ PQLen(queue) > 0) =>
        \A n \in Range(queue.heap) :
            queue.key[n] = queue.key[PQTop(queue)] => PQTop(queue) <= n

\* C10: at every point during contraction every edge ID created so far is in
\* overlay.fwd_adj[src] and overlay.bwd_adj[dest], also when an endpoint
\* has already been contracted.
C10_OverlayKeepsEveryEdge == \A id \in EdgeIds(overlay) : Listed(overlay, id)

\* two nodes are contracted, and a shortcut ends at one of them: the
\* shrinking graph has dropped it, the overlay lists it
C10_Witness ==
    /\ Len(order) >= 2
    /\ \E id \in EdgeIds(overlay) :
          /\ IsShortcut(overlay, id)
          /\ ~Listed(graph, id)
          /\ Listed(overlay, id)
          /\ \/ get_edge(overlay, id).src_id \in Range(order)
             \/ get_edge(overlay, id).dest_id \in Range(order)


\* the (neighbor, weight) pairs of the edges of an adjacency list
AdjPairs(g, ids, is_fwd) ==
    [k \in 1 .. Len(ids) |->
        << IF is_fwd THEN get_edge(g, ids[k]).dest_id ELSE get_edge(g, ids[k]).src_id,
           EdgeWeight(g, ids[k]) >>]

\* the (target, weight) pairs of a row of hot records
HotPairs(row) == [k \in 1 .. Len(row) |-> << row[k].target, row[k].weight >>]

SameMultiset(a, b) == \A x \in Range(a) \cup Range(b) : Count(a, x) = Count(b, x)

RoundTrip(g) ==
    LET c == from_preprocessed_graph(g)
    IN  \A u \in Nodes :
           /\ SameMultiset(HotPairs(fwd_neighbors(c, u)),
                           AdjPairs(g, g.fwd_edge_list[u], TRUE))
           /\ SameMultiset(HotPairs(bwd_neighbors(c, u)),
                           AdjPairs(g, g.bwd_edge_list[u], FALSE))

\* C5: for any mutable Graph G and every node u, fwd_neighbors(u) of
\* from_preprocessed_graph(G) has the (dest, weight) pairs of G.fwd_adj[u] as
\* a multiset, and bwd_neighbors(u) the (src, weight) pairs of G.bwd_adj[u].
\* G ranges over the shrinking graph and the overlay of every state.
C5_CSRRoundTrip == RoundTrip(graph) /\ RoundTrip(overlay)

\* the snapshot is frozen from an overlay with a shortcut, and some node's
\* forward and backward rows both hold two records or more
C5_Witness ==
    /\ pc = "frozen"
    /\ csr = from_preprocessed_graph(overlay)
    /\ \E id \in EdgeIds(overlay) : IsShortcut(overlay, id)
    /\ \E u \in Nodes : Len(fwd_neighbors(csr, u)) >= 2 /\ Len(bwd_neighbors(csr, u)) >= 2

\* consecutive nodes of p are joined by an edge of g
WalkIn(g, p) ==
    \A k \in 1 .. (Len(p) - 1) :
        \E id \in EdgeIds(g) :
            get_edge(g, id).src_id = p[k] /\ get_edge(g, id).dest_id = p[k + 1]

\* the lightest edge of g from u to v
StepWeight(g, u, v) ==
    LET ws == { EdgeWeight(g, id) :
                  id \in { i \in EdgeIds(g) :
                             get_edge(g, i).src_id = u /\ get_edge(g, i).dest_id = v } }
    IN  IF ws = {} THEN Inf ELSE CHOOSE m \in ws : \A x \in ws : m <= x

RECURSIVE WalkWeight(_, _)
WalkWeight(g, p) ==
    IF Len(p) <= 1 THEN 0
    ELSE Plus(StepWeight(g, p[1], p[2]), WalkWeight(g, Tail(p)))

\* p is a path of g from src to dest of weight w
IsPathOfWeight(g, p, src, dest, w) ==
    /\ Len(p) >= 1
    /\ p[1] = src
    /\ p[Len(p)] = dest
    /\ WalkIn(g, p)
    /\ WalkWeight(g, p) = w

\* the returned node list, and the lists that put one more node into it
\* (the list as returned leaves out the meeting node)
Completions(path) ==
    { path } \cup
    { SubSeq(path, 1, k) \o << m >> \o SubSeq(path, k + 1, Len(path)) :
        k \in 0 .. Len(path), m \in Nodes }

\* C1: for every source and target of a contracted graph with a path between
\* them, the query on the overlay yields a path whose weight is the
\* shortest-path weight of the original graph.  Stated for distinct source
\* and target (C6 is the case s = t), and the returned list is read
\* generously: it may lack one node (the meeting node).
C1_QueryWeightIsDijkstra ==
    (query.served /\ query.src # query.dest
       /\ ShortestDist(original, query.src, query.dest) < Inf) =>
        /\ IsSome(query.result)
        /\ \E p \in Completions(Unwrap(query.result)) :
              IsPathOfWeight(overlay, p, query.src, query.dest,
                             ShortestDist(original, query.src, query.dest))

HasIncidentEdge(g, n) ==
    \E id \in EdgeIds(g) : get_edge(g, id).src_id = n \/ get_edge(g, id).dest_id = n

\* C6: for every node s with an incident edge the query (s -> s) returns a
\* path, of weight 0, whose node sequence is exactly [s].
C6_SelfQuery ==
    (query.served /\ query.src = query.dest /\ HasIncidentEdge(original, query.src)) =>
        query.result = Some(<< query.src >>)

\* C7: when the target cannot be reached from the source in the original
\* graph the query returns None.
C7_UnreachableIsNone ==
    (query.served /\ ShortestDist(original, query.src, query.dest) = Inf) =>
        query.result = None

\* a query between two nodes joined in the other direction only, on an
\* overlay that holds a shortcut
C7_Witness ==
    /\ query.served
    /\ query.result = None
    /\ ShortestDist(original, query.src, query.dest) = Inf
    /\ ShortestDist(original, query.dest, query.src) < Inf
    /\ \E id \in EdgeIds(overlay) : IsShortcut(overlay, id)

\* C2: unpacking a packed path returned by the query yields a walk of the
\* original graph from the path's source to its target whose weight is the
\* weight of the packed path.
C2_UnpackingFidelity ==
    unpacked.status # "idle" =>
        /\ unpacked.status = "ok"
        /\ IsPathOfWeight(original, unpacked.out,
                          PackedSource(csr, overlay, unpacked.packed_path),
                          PackedTarget(csr, overlay, unpacked.packed_path),
                          PackedWeight(csr, unpacked.packed_path))


\* the order in which contract_graph contracts the graph when the ranking
\* loop pushes the nodes in dense order
DenseOrder == contract_graph(EntryState(variant, original)).order

IsPrefix(a, b) == Len(a) <= Len(b) /\ SubSeq(b, 1, Len(a)) = a

\* C9: with the initial ranking run by parallel workers pushing into the
\* shared queue, the contraction order is the same for every interleaving
\* of the workers: it is the order of the run that pushes in dense order.
C9_OrderSameForEveryInterleaving == Len(order) >= 1 => IsPrefix(order, DenseOrder)


\* g2 is g with the adjacency entries of the edges at v removed and
\* nothing else changed
RemovalFrame(g, g2, v) ==
    /\ g2.edges = g.edges
    /\ g2.edge_metadata = g.edge_metadata
    /\ g2.nodes = g.nodes
    /\ g2.fwd_edge_list[v] = << >>
    /\ g2.bwd_edge_list[v] = << >>
    /\ \A n \in Nodes \ {v} :
          /\ g2.fwd_edge_list[n]
                = SelectSeq(g.fwd_edge_list[n],
                            LAMBDA e : get_edge(g, e).src_id # v /\ get_edge(g, e).dest_id # v)
          /\ g2.bwd_edge_list[n]
                = SelectSeq(g.bwd_edge_list[n],
                            LAMBDA e : get_edge(g, e).src_id # v /\ get_edge(g, e).dest_id # v)

\* contract_graph is about to call remove_edges_from_neighbors
AtRemoval == pc = "rerank" /\ cg.ni > Len(cg.nbrs)

\* C11: remove_edges_from_neighbors(v) removes from the adjacency lists
\* exactly the entries of the edges with src = v or dest = v, leaves
\* fwd_adj[v] and bwd_adj[v] empty, and leaves every other entry, edges,
\* edge_metadata and nodes as they were.  Stated of the shrinking graph at
\* each call of contract_graph, for the contracted node and any other node.
C11_RemovalFrame ==
    AtRemoval =>
        \A v \in Nodes : RemovalFrame(graph, remove_edges_from_neighbors(graph, v), v)

\* the call removes incoming and outgoing edges of the contracted node, one
\* of them a shortcut, and another node keeps an entry
C11_Witness ==
    /\ AtRemoval
    /\ Len(graph.fwd_edge_list[cg.contracted_id]) >= 1
    /\ Len(graph.bwd_edge_list[cg.contracted_id]) >= 1
    /\ \E id \in Range(graph.bwd_edge_list[cg.contracted_id]) : IsShortcut(graph, id)
    /\ \E n \in Nodes \ {cg.contracted_id} :
          \E e \in Range(graph.fwd_edge_list[n]) : get_edge(graph, e).dest_id # cg.contracted_id

NonDecreasing(s) == \A k \in 1 .. (Len(s) - 1) : s[k] <= s[k + 1]

RowPointersShape(c) ==
    /\ Len(c.row_fwd_ptr) = NumNodes + 1
    /\ Len(c.row_bwd_ptr) = NumNodes + 1
    /\ c.row_fwd_ptr[1] = 0
    /\ c.row_bwd_ptr[1] = 0
    /\ NonDecreasing(c.row_fwd_ptr)
    /\ NonDecreasing(c.row_bwd_ptr)
    /\ c.row_fwd_ptr[NumNodes + 1] = Len(c.cols_fwd)
    /\ c.row_bwd_ptr[NumNodes + 1] = Len(c.cols_bwd)
    /\ Len(c.values_hot) = Len(c.values_cold)
    /\ Len(c.values_hot) = Len(c.cols_fwd) + Len(c.cols_bwd)

\* the states between two iterations of contract_graph, and after it
BetweenIterations == pc \in {"pop", "done", "frozen"}

\* C12: the snapshot built from a graph of |V| nodes has row_fwd_ptr and
\* row_bwd_ptr of length |V| + 1 that start at 0, do not decrease and end at
\* |cols_fwd| and |cols_bwd|, and |values_hot| = |values_cold| =
\* |cols_fwd| + |cols_bwd|.  The graphs are the shrinking graph and the
\* overlay between the iterations of contract_graph.
C12_RowPointers ==
    BetweenIterations =>
        /\ RowPointersShape(from_preprocessed_graph(graph))
        /\ RowPointersShape(from_preprocessed_graph(overlay))
        /\ pc = "frozen" => RowPointersShape(csr)

\* a frozen snapshot with an empty row between non-empty rows and with
\* backward rows that start after the forward values
C12_Witness ==
    /\ pc = "frozen"
    /\ Len(csr.cols_fwd) >= 3
    /\ \E u \in 1 .. (NumNodes - 2) :
          /\ csr.row_fwd_ptr[u + 1] = csr.row_fwd_ptr[u + 2]
          /\ csr.row_fwd_ptr[u] < csr.row_fwd_ptr[u + 1]
          /\ csr.row_fwd_ptr[u + 2] < csr.row_fwd_ptr[u + 3]

\* every edge ID is once in a forward list and once in a backward list
EachEdgeOnceEachWay(g) ==
    \A id \in EdgeIds(g) :
        /\ Cardinality({ n \in Nodes : id \in Range(g.fwd_edge_list[n]) }) = 1
        /\ Cardinality({ n \in Nodes : id \in Range(g.bwd_edge_list[n]) }) = 1
        /\ \A n \in Nodes : Count(g.fwd_edge_list[n], id) <= 1 /\ Count(g.bwd_edge_list[n], id) <= 1

\* C13: on the snapshot of the contracted overlay, get_fwd_edge_cold(e) and
\* get_bwd_edge_cold(e) are the cold record of edge e for every edge ID e,
\* so the prev_edge / next_edge of a shortcut resolve to the edges it packs.
C13_ColdAccessors ==
    (pc = "frozen" /\ EachEdgeOnceEachWay(overlay)) =>
        \A e \in EdgeIds(overlay) :
            /\ get_fwd_edge_cold(csr, e) = CSREdgeCold(overlay, e)
            /\ get_bwd_edge_cold(csr, e) = CSREdgeCold(overlay, e)
            /\ IsShortcut(overlay, e) =>
                  LET cold == get_fwd_edge_cold(csr, e)
                      prev == get_fwd_edge_cold(csr, Unwrap(cold.prev_edge))
                      next == get_bwd_edge_cold(csr, Unwrap(cold.next_edge))
                  IN  /\ prev.from_node = cold.from_node
                      /\ next.to_node = cold.to_node
                      /\ prev.to_node = next.from_node

\* the snapshot holds a shortcut, and its cold records were not pushed in
\* ID order: the record at index 2e is not the one pushed there
C13_Witness ==
    /\ pc = "frozen"
    /\ EachEdgeOnceEachWay(overlay)
    /\ \E e \in EdgeIds(overlay) :
          /\ IsShortcut(overlay, e)
          /\ csr.values_hot[2 * e + 1].id # e

\* ---------------------------------------------------------------------
\* The witness searcher driven alone on a built graph: one init, then
\* searches for several targets from the state the earlier ones left.
\* limit_weight is the weight of two edges; max_hops is the budget of the
\* caller, small or MaxHops.
Limits == 2 .. (2 * MaxWeight)

HopBudgets == {1, MaxHops}

InitProbe ==
    /\ pc = "rank"
    /\ ranked = {}
    /\ probe.calls = 0
    /\ dijkstra = NewDijkstra
    /\ \E src, ignore \in Nodes :
          /\ dijkstra' = init(dijkstra, src, ignore)
          /\ probe' = [NoProbe EXCEPT !.src = src, !.ignore = ignore]
    /\ pc' = "search"
    /\ UNCHANGED << variant, original, graph, overlay, queue, ranked, cg, order,
                    serving, builder >>

SearchProbe ==
    /\ pc = "search"
    /\ probe.calls < MaxCalls
    /\ \E dest \in Nodes, limit_weight \in Limits, max_hops \in HopBudgets :
          LET r == search(dijkstra, graph, dest, limit_weight, max_hops)
              \* the same call on a searcher just initialised, for reference
              fresh == search(init(NewDijkstra, probe.src, probe.ignore), graph, dest,
                              limit_weight, max_hops)
          IN  /\ dijkstra' = r.d
              /\ probe' = [probe EXCEPT !.dest = dest, !.weight = r.weight,
                                        !.calls = @ + 1,
                                        !.max_hops = max_hops, !.pops = r.pops,
                                        !.fresh = fresh.weight]
    /\ UNCHANGED << variant, original, graph, overlay, queue, pc, ranked, cg, order,
                    serving, builder >>

NextSearch ==
    \/ InitProbe
    \/ SearchProbe

\* local_dijkstra called on a built graph
LocalLimits == 0 .. (2 * MaxWeight + 1)

LocalProbe ==
    /\ pc = "rank"
    /\ ranked = {}
    /\ \E src_node, dest_node, exclude_node \in Nodes, limit_weight \in LocalLimits :
          \E r \in local_dijkstra(graph, src_node, dest_node, exclude_node, limit_weight) :
              probe' = [NoProbe EXCEPT !.src = src_node, !.dest = dest_node,
                                       !.ignore = exclude_node,
                                       !.limit_weight = limit_weight,
                                       !.local = r, !.calls = 1]
    /\ pc' = "local"
    /\ UNCHANGED << variant, original, graph, overlay, dijkstra, queue, ranked, cg,
                    order, serving, builder >>

NextLocal == LocalProbe

SpecLocal == InitWith("seq", MaxWaysSearch) /\ [][NextLocal]_vars

SpecSearch == InitWith("seq", MaxWaysSearch) /\ [][NextSearch]_vars

\* ---------------------------------------------------------------------
\* the edge IDs and the metadata indices build_edge_lists pushed for its
\* i-th way
WayEdges(i) ==
    LET hi == IF i < Len(builder.built) THEN builder.built[i + 1].first_edge
              ELSE num_edges(original)
    IN  builder.built[i].first_edge .. (hi - 1)

WayMetadata(i) ==
    LET hi == IF i < Len(builder.built) THEN builder.built[i + 1].first_metadata
              ELSE Len(original.edge_metadata)
    IN  builder.built[i].first_metadata .. (hi - 1)

EdgesOfMetadata(i, m) ==
    { e \in WayEdges(i) : get_edge(original, e).metadata_index = m }

\* the metadata record m stands for a forward edge alone
ForwardOnly(i, m) == Cardinality(EdgesOfMetadata(i, m)) = 1

\* the metadata record m stands for a forward edge u -> v and, with the
\* next edge ID, its reverse edge v -> u
ForwardAndReverse(i, m) ==
    \E f \in EdgesOfMetadata(i, m) :
        /\ EdgesOfMetadata(i, m) = {f, f + 1}
        /\ get_edge(original, f + 1).src_id = get_edge(original, f).dest_id
        /\ get_edge(original, f + 1).dest_id = get_edge(original, f).src_id

\* the i-th way yields the edges r0 -> rk and rk -> r0 on one metadata record
EndpointsBothWays(i) ==
    LET refs == builder.ways[i].refs
    IN  \E f, r \in WayEdges(i) :
            /\ f # r
            /\ get_edge(original, f).src_id = Head(refs)
            /\ get_edge(original, f).dest_id = Last(refs)
            /\ get_edge(original, r).src_id = Last(refs)
            /\ get_edge(original, r).dest_id = Head(refs)
            /\ get_edge(original, f).metadata_index = get_edge(original, r).metadata_index

NoIntersectionData(i) == ~IsSome(create_intersections_map(builder.ways, i))

\* C14 as stated: every forward edge of a way has its reverse edge exactly
\* when the way is not one-way, and a non-one-way way without intersection
\* data yields r0 -> rk and rk -> r0 on one metadata record.
C14_ReverseIffNotOneWay ==
    \A i \in 1 .. Len(builder.built) :
        LET wd == builder.ways[i]
        IN  /\ \A m \in WayMetadata(i) :
                   IF wd.is_oneway THEN ForwardOnly(i, m) ELSE ForwardAndReverse(i, m)
            /\ (~wd.is_oneway /\ wd.refs # << >> /\ NoIntersectionData(i)) =>
                   EndpointsBothWays(i)

\* C14: every forward edge u -> v of a way has its reverse edge v -> u, with
\* the next edge ID and the same metadata record, exactly when the way is
\* neither one-way nor a roundabout and, for a way without intersection
\* data, u # v; otherwise the way yields forward edges only.  A way that is
\* neither one-way nor a roundabout, has no intersection data and has
\* r0 # rk yields r0 -> rk and rk -> r0 on one metadata record.
C14_ReverseEdgeRule ==
    \A i \in 1 .. Len(builder.built) :
        LET wd == builder.ways[i]
            both == /\ ~wd.is_oneway
                    /\ ~wd.is_roundabout
                    /\ wd.refs # << >>
                    /\ NoIntersectionData(i) => Head(wd.refs) # Last(wd.refs)
        IN  /\ \A m \in WayMetadata(i) :
                   IF both THEN ForwardAndReverse(i, m) ELSE ForwardOnly(i, m)
            /\ (both /\ NoIntersectionData(i)) => EndpointsBothWays(i)

\* a way after another one got a forward and a reverse edge, and a way that
\* is not one-way got a forward edge alone
C14_Witness ==
    /\ pc = "build"
    /\ \E i \in 2 .. Len(builder.built) :
          /\ builder.built[i].first_edge > 0
          /\ NoIntersectionData(i)
          /\ WayMetadata(i) # {}
          /\ \A m \in WayMetadata(i) : ForwardAndReverse(i, m)
    /\ \E i \in 1 .. Len(builder.built) :
          /\ ~builder.ways[i].is_oneway
          /\ WayMetadata(i) # {}
          /\ \A m \in WayMetadata(i) : ForwardOnly(i, m)

\* ---------------------------------------------------------------------
\* the meeting node of the query that was served
MeetingNode ==
    Unwrap(QueryLoop(QueryStart(query.src, query.dest), overlay).meeting_node)

\* an overlay edge leads from u to v
Joined(g, u, v) ==
    \E id \in EdgeIds(g) : get_edge(g, id).src_id = u /\ get_edge(g, id).dest_id = v

\* C15: a path the query returns starts at the source, contains the meeting
\* node, ends at the target, and every two consecutive nodes of it are
\* joined by an overlay edge in the direction of travel.
C15_ReturnedPathShape ==
    (query.served /\ IsSome(query.result)) =>
        LET path == Unwrap(query.result)
        IN  /\ path # << >>
            /\ Head(path) = query.src
            /\ MeetingNode \in Range(path)
            /\ Last(path) = query.dest
            /\ \A k \in 1 .. (Len(path) - 1) : Joined(overlay, path[k], path[k + 1])

\* ---------------------------------------------------------------------
\* the search state the query that was served stopped in
StoppedSearch == QueryLoop(QueryStart(query.src, query.dest), overlay)

\* mu: the best forward_dist[v] + backward_dist[v] seen
Mu(q) ==
    LET sums == { Plus(q.forward_dist[v], q.backward_dist[v]) : v \in Nodes }
    IN  CHOOSE m \in sums : \A x \in sums : m <= x

\* the key on top of a queue, +inf for an empty queue
TopKey(pq) == IF PQLen(pq) = 0 THEN Inf ELSE pq.key[PQTop(pq)]

\* C16: the bidirectional search stops only when the smaller of the two
\* queue-top keys is >= mu or both queues are empty: not at the first
\* meeting node, and not when only one queue is empty.
C16_StopsAtMuOrBothEmpty ==
    query.served =>
        LET q == StoppedSearch
        IN  \/ PQLen(q.forward_queue) = 0 /\ PQLen(q.backward_queue) = 0
            \/ Min2(TopKey(q.forward_queue), TopKey(q.backward_queue)) >= Mu(q)

\* ---------------------------------------------------------------------
\* the cold record a packed entry names
EntryCold(c, entry) == c.values_cold[entry.edge_id + 1]

\* every entry of the packed path is an original edge
OriginalOnly(c, packed_path) ==
    \A k \in 1 .. Len(packed_path) : via_node(c, EntryCold(c, packed_path[k])) = None

\* the endpoints of the entries in traversal order, none twice in a row
RECURSIVE Endpoints(_, _, _)
Endpoints(c, packed_path, out) ==
    IF packed_path = << >> THEN out
    ELSE LET cold == EntryCold(c, Head(packed_path))
             node == IF Head(packed_path).is_fwd THEN cold.from_node ELSE cold.to_node
         IN  Endpoints(c, Tail(packed_path), PushNode(out, node))

\* C17: a packed path made only of original edges unpacks to the endpoints
\* of its entries in traversal order (from_node of a forward entry, to_node
\* of a backward entry), so to a non-empty node sequence.
C17_OriginalEdgesEmitEndpoint ==
    (unpacked.status # "idle" /\ unpacked.packed_path # << >>
        /\ OriginalOnly(csr, unpacked.packed_path)) =>
        /\ unpacked.out # << >>
        /\ unpacked.out = Endpoints(csr, unpacked.packed_path, << >>)

\* ---------------------------------------------------------------------
\* shortcuts_needed(u): the pairs (incoming edge w -> u, outgoing edge
\* u -> v) with w # v, w # u and v # u whose witness search from w ignoring
\* u returns a weight greater than weight(w -> u) + weight(u -> v)
RECURSIVE NeededInner(_, _, _, _, _, _)
NeededInner(g, d, u, bwd_edge, fwd_ids, count) ==
    IF fwd_ids = << >> THEN [d |-> d, count |-> count]
    ELSE LET fwd_edge == get_edge(g, Head(fwd_ids))
             w == bwd_edge.src_id
             v == fwd_edge.dest_id
             bound == get_edge_metadata(g, bwd_edge).weight
                          + get_edge_metadata(g, fwd_edge).weight
             r == search(d, g, v, bound, MaxHops)
         IN  IF w = v \/ w = u \/ v = u
             THEN NeededInner(g, d, u, bwd_edge, Tail(fwd_ids), count)
             ELSE NeededInner(g, r.d, u, bwd_edge, Tail(fwd_ids),
                              IF r.weight > bound THEN count + 1 ELSE count)

RECURSIVE NeededOuter(_, _, _, _)
NeededOuter(g, u, bwd_ids, count) ==
    IF bwd_ids = << >> THEN count
    ELSE LET bwd_edge == get_edge(g, Head(bwd_ids))
             r == NeededInner(g, init(NewDijkstra, bwd_edge.src_id, u), u, bwd_edge,
                              get_fwd_neighbors(g, u), count)
         IN  NeededOuter(g, u, Tail(bwd_ids), r.count)

shortcuts_needed(g, u) == NeededOuter(g, u, get_bwd_neighbors(g, u), 0)

\* contract_node run on node u from the state S to its return
RECURSIVE ContractNodeFrom(_)
ContractNodeFrom(S) ==
    IF S.cg.bi > Len(S.cg.bwd_indices) THEN S ELSE ContractNodeFrom(ContractPairStep(S))

\* the number of shortcuts contract_node inserts for u in the state S
Inserted(S, u) ==
    LET entry == [S EXCEPT !.cg = [IdleLocals EXCEPT
                                      !.contracted_id = u,
                                      !.fwd_indices = get_fwd_neighbors(S.graph, u),
                                      !.bwd_indices = get_bwd_neighbors(S.graph, u)],
                           !.pc = "contract"]
    IN  num_edges(ContractNodeFrom(entry).graph) - num_edges(S.graph)

\* the initial ranking is over and nothing is contracted yet: the queue
\* holds rank_node(u) of every node u, computed on the graph as built
Ranked == variant = "seq" /\ pc = "pop" /\ order = << >>

\* C18: rank_node(u) is shortcuts_needed(u) minus the in- and out-degree
\* of u, and shortcuts_needed(u) is the number of shortcuts contract_node
\* would insert for u on the same graph.
C18_RankIsEdgeDifference ==
    Ranked =>
        \A u \in Nodes :
            /\ queue.key[u] = shortcuts_needed(overlay, u)
                                  - (Len(get_bwd_neighbors(overlay, u))
                                       + Len(get_fwd_neighbors(overlay, u)))
            /\ shortcuts_needed(overlay, u) = Inserted(Cur, u)

\* ---------------------------------------------------------------------
\* the last edge of g is a shortcut w -> v of the given weight
LastIsShortcut(g, w, v, weight) ==
    LET id == num_edges(g) - 1
    IN  /\ num_edges(g) > 0
        /\ get_edge(g, id).src_id = w
        /\ get_edge(g, id).dest_id = v
        /\ IsShortcut(g, id)
        /\ EdgeWeight(g, id) = weight

\* a turn of the inner loop of contract_node on which the search is run
\* inserts the shortcut w -> v into the shrinking graph and the overlay
\* when the search returns more than combined, and nothing otherwise
PairTurn ==
    (pc = "contract" /\ cg.bi <= Len(cg.bwd_indices) /\ cg' # cg
        /\ cg.fwd_indices # << >>) =>
        LET u == cg.contracted_id
            bwd_edge == get_edge(graph, cg.bwd_indices[cg.bi])
            fwd_edge == get_edge(graph, cg.fwd_indices[cg.fi])
            w == bwd_edge.src_id
            v == fwd_edge.dest_id
            combined == get_edge_metadata(overlay, bwd_edge).weight
                            + get_edge_metadata(overlay, fwd_edge).weight
            d0 == IF cg.fi = 1 THEN init(dijkstra, w, u) ELSE dijkstra
            witness_weight == search(d0, graph, v, combined, ContractHops(Cur)).weight
        IN  (v # w /\ v # u /\ w # u) =>
                IF witness_weight > combined
                THEN /\ num_edges(graph') = num_edges(graph) + 1
                     /\ num_edges(overlay') = num_edges(overlay) + 1
                     /\ LastIsShortcut(graph', w, v, combined)
                     /\ LastIsShortcut(overlay', w, v, combined)
                ELSE /\ graph'.edges = graph.edges
                     /\ overlay'.edges = overlay.edges

WithoutLast(g) ==
    LET id == num_edges(g) - 1
        e == get_edge(g, id)
    IN  [g EXCEPT !.edges = SubSeq(@, 1, id),
                  !.edge_metadata = SubSeq(@, 1, Len(@) - 1),
                  !.fwd_edge_list[e.src_id] = Retain(@, id),
                  !.bwd_edge_list[e.dest_id] = Retain(@, id)]

SimplePaths ==
    { p \in UNION { [1 .. n -> Nodes] : n \in 1 .. NumNodes } :
         \A j, k \in 1 .. Len(p) : j # k => p[j] # p[k] }

\* the weights of the edges of g from u to v
StepWeights(g, u, v) ==
    { EdgeWeight(g, id) :
        id \in { i \in EdgeIds(g) :
                   get_edge(g, i).src_id = u /\ get_edge(g, i).dest_id = v } }

\* the total weights the node sequence p can have as a path of g
RECURSIVE PathWeights(_, _)
PathWeights(g, p) ==
    IF Len(p) <= 1 THEN {0}
    ELSE { a + b : a \in StepWeights(g, p[1], p[2]), b \in PathWeights(g, Tail(p)) }

\* the total weights of the paths of g from src to dest that do not pass
\* through the node ignore
AvoidingWeights(g, src, dest, ignore) ==
    UNION { PathWeights(g, p) :
              p \in { q \in SimplePaths :
                        /\ q[1] = src
                        /\ q[Len(q)] = dest
                        /\ \A k \in 1 .. Len(q) : q[k] # ignore } }

\* g with the node n removed: its edges weigh +inf
WithoutNode(g, n) ==
    [g EXCEPT !.edge_metadata =
        [k \in 1 .. Len(g.edge_metadata) |->
            IF \E id \in EdgeIds(g) :
                  /\ get_edge(g, id).metadata_index = k - 1
                  /\ get_edge(g, id).src_id = n \/ get_edge(g, id).dest_id = n
            THEN [g.edge_metadata[k] EXCEPT !.weight = Inf]
            ELSE g.edge_metadata[k]]]

\* C20: for source # ignore and target # ignore, a search after
\* init(source, ignore) returns +inf or the weight of a path from source to
\* target that does not pass through the ignored node, and never less than
\* the shortest distance in the graph without the ignored node.
C20_SearchReturnsPathWeight ==
    (pc = "search" /\ probe.calls > 0
        /\ probe.src # probe.ignore /\ probe.dest # probe.ignore) =>
        /\ \/ probe.weight = Inf
           \/ probe.weight \in AvoidingWeights(graph, probe.src, probe.dest, probe.ignore)
        /\ probe.weight >= ShortestDist(WithoutNode(graph, probe.ignore),
                                        probe.src, probe.dest)

\* a second search after one init returned the weight of a path of two
\* edges that does not pass through the ignored node
C20_Witness ==
    /\ pc = "search"
    /\ probe.calls = MaxCalls
    /\ probe.src # probe.ignore
    /\ probe.dest # probe.ignore
    /\ probe.src # probe.dest
    /\ probe.weight < Inf
    /\ StepWeights(graph, probe.src, probe.dest) = {}

\* ---------------------------------------------------------------------
\* C21: one call of search removes at most max_hops nodes from the
\* searcher's queue.
C21_PopsWithinBudget ==
    (pc = "search" /\ probe.calls > 0) => probe.pops <= probe.max_hops

\* ---------------------------------------------------------------------
\* the nodes joined to u by an edge of g, in either direction
JoinedTo(g, u) ==
    { n \in Nodes : Joined(g, n, u) \/ Joined(g, u, n) }

\* no rank is lowered by the step, and when the neighbor loop of the
\* iteration for u is over every node joined to u has at least the rank u
\* had when popped, plus one
RanksRaised ==
    /\ \A n \in Nodes : overlay'.nodes[n].rank >= overlay.nodes[n].rank
    /\ (pc' = "rerank" /\ cg'.ni > Len(cg'.nbrs)) =>
           \A n \in JoinedTo(overlay', cg'.contracted_id) :
               overlay'.nodes[n].rank >= cg'.neighbor_rank

\* C22: right after the contraction step for u every node joined to u by
\* an edge has rank >= r + 1, r the rank of u when it was popped; no step
\* lowers a rank.
C22_NeighborsRaised == [][RanksRaised]_vars

\* the neighbor loop is over for a node with a neighbor that already
\* ranked higher than r + 1
C22_Witness ==
    /\ AtRemoval
    /\ \E m \in JoinedTo(overlay, cg.contracted_id) \ {cg.contracted_id} :
          overlay.nodes[m].rank > cg.neighbor_rank

\* ---------------------------------------------------------------------
\* the node a shortcut was made for: the head of its prev_edge
ContractedFor(g, id) ==
    get_edge(g, Unwrap(get_edge_metadata(g, get_edge(g, id)).prev_edge)).dest_id

\* C23: no shortcut is a self-loop, and no shortcut starts or ends at the
\* node it was made for; a self-loop at the contracted node gives no
\* shortcut.
C23_NoSelfLoopShortcut ==
    \A id \in EdgeIds(overlay) :
        IsShortcut(overlay, id) =>
            LET e == get_edge(overlay, id)
                m == get_edge_metadata(overlay, e)
                prev == get_edge(overlay, Unwrap(m.prev_edge))
                next == get_edge(overlay, Unwrap(m.next_edge))
            IN  /\ e.src_id # e.dest_id
                /\ e.src_id # ContractedFor(overlay, id)
                /\ e.dest_id # ContractedFor(overlay, id)
                /\ prev.src_id # prev.dest_id
                /\ next.src_id # next.dest_id

\* a node with a self-loop was contracted and got a shortcut
C23_Witness ==
    \E id \in EdgeIds(overlay) :
        /\ IsShortcut(overlay, id)
        /\ Joined(overlay, ContractedFor(overlay, id), ContractedFor(overlay, id))

\* ---------------------------------------------------------------------
\* one round of relaxation of the edges of g that do not lead into exclude
RelaxAvoiding(g, dist, exclude) ==
    [v \in Nodes |->
        LET cand == { Plus(dist[get_edge(g, id).src_id], EdgeWeight(g, id)) :
                         id \in { i \in EdgeIds(g) :
                                    get_edge(g, i).dest_id = v /\ v # exclude } }
                    \cup { dist[v] }
        IN  CHOOSE m \in cand : \A x \in cand : m <= x]

RECURSIVE AvoidingRounds(_, _, _, _)
AvoidingRounds(g, dist, exclude, rounds) ==
    IF rounds = 0 THEN dist
    ELSE AvoidingRounds(g, RelaxAvoiding(g, dist, exclude), exclude, rounds - 1)

\* the least weight of a path of g from src to dest that never enters the
\* node exclude (no edge of it leads into exclude); Inf when there is none
LeastAvoiding(g, src, dest, exclude) ==
    AvoidingRounds(g, [[n \in Nodes |-> Inf] EXCEPT ![src] = 0], exclude,
                   NumNodes - 1)[dest]

PoppedAt(n) == CHOOSE k \in 1 .. Len(order) : order[k] = n

\* C25: when contract_graph has returned, every overlay edge joins a node
\* contracted earlier to a node contracted later of strictly higher rank.
C25_RanksFollowOrder ==
    pc \in {"done", "frozen"} =>
        \A id \in EdgeIds(overlay) :
            LET a == get_edge(overlay, id).src_id
                b == get_edge(overlay, id).dest_id
            IN  /\ PoppedAt(a) < PoppedAt(b) => overlay.nodes[a].rank < overlay.nodes[b].rank
                /\ PoppedAt(b) < PoppedAt(a) => overlay.nodes[b].rank < overlay.nodes[a].rank

\* ---------------------------------------------------------------------
\* C26: after one init(w, u), a search for a further target returns what a
\* fresh init(w, u) followed by the same search returns.  Stated for the
\* calls contract_node and rank_node make: w, u and the target distinct,
\* hop budget MaxHops.
C26_ReuseIsTransparent ==
    (pc = "search" /\ probe.calls > 0 /\ probe.max_hops = MaxHops
        /\ probe.src # probe.ignore /\ probe.dest # probe.ignore
        /\ probe.dest # probe.src) =>
        probe.weight = probe.fresh

\* ---------------------------------------------------------------------
\* contract_graph has returned
Returned == pc \in {"done", "frozen"}

\* a node that has been popped is not in the queue
PoppedStayOut == \A n \in Range(order) : ~PQContains(queue, n)

\* a step of contract_graph is ready to run
CanStep ==
    /\ variant = "seq"
    /\ \/ pc = "rank" /\ ranked # Nodes
       \/ pc = "pop"
       \/ pc = "contract"
       \/ pc = "rerank"

\* what contract_graph still has to run: nodes to rank, nodes to pop, the
\* part of the loop body it is in, and the turns left of that part
LeftToRun ==
    << NumNodes - Cardinality(ranked),
       PQLen(queue),
       CASE pc = "contract" -> 3
         [] pc = "rerank" -> 2
         [] pc \in {"rank", "pop"} -> 1
         [] OTHER -> 0,
       CASE pc = "contract" ->
                IF cg.bi > Len(cg.bwd_indices) THEN 0
                ELSE IF cg.fwd_indices = << >> THEN Len(cg.bwd_indices) - cg.bi + 1
                ELSE (Len(cg.bwd_indices) - cg.bi + 1) * Len(cg.fwd_indices) - (cg.fi - 1)
         [] pc = "rerank" -> Len(cg.nbrs) - cg.ni + 1
         [] OTHER -> 0 >>

LexLess(a, b) ==
    \E k \in 1 .. Len(a) : a[k] < b[k] /\ \A j \in 1 .. (k - 1) : a[j] = b[j]

\* one step of contract_graph: it leaves less to run, it pops no node a
\* second time, no popped node is in the queue after it, it ends either
\* returned or with a further step ready, and if it returns the loop body
\* has run once for each node
EachNodeOnce ==
    /\ ~Returned => LexLess(LeftToRun', LeftToRun)
    /\ NoDuplicates(order')
    /\ PoppedStayOut'
    /\ Returned' \/ CanStep'
    /\ Returned' => (Len(order') = NumNodes /\ Range(order') = Nodes)

Contracting == pc \in {"rank", "pop", "contract", "rerank", "done"}

\* C28: at every point during contraction the shrinking graph and the
\* overlay hold the same edges and edge_metadata arrays, length and entries.
C28_SameEdgeArrays ==
    Contracting =>
        /\ graph.edges = overlay.edges
        /\ graph.edge_metadata = overlay.edge_metadata

\* inside contract_node, after a shortcut was pushed and after an earlier
\* node's edges left the shrinking graph's adjacency lists only
C28_Witness ==
    /\ pc = "contract"
    /\ Len(order) >= 2
    /\ \E id \in EdgeIds(graph) : IsShortcut(graph, id)
    /\ graph.fwd_edge_list # overlay.fwd_edge_list
    /\ Len(graph.edges) > Len(original.edges)

\* ---------------------------------------------------------------------
PrevOf(g, id) == Unwrap(get_edge_metadata(g, get_edge(g, id)).prev_edge)

NextOf(g, id) == Unwrap(get_edge_metadata(g, get_edge(g, id)).next_edge)

\* the back-pointers of every shortcut name older edges that meet in a node
PointBack(g) ==
    \A s \in EdgeIds(g) :
        IsShortcut(g, s) =>
            /\ PrevOf(g, s) \in EdgeIds(g) /\ PrevOf(g, s) < s
            /\ NextOf(g, s) \in EdgeIds(g) /\ NextOf(g, s) < s
            /\ get_edge(g, PrevOf(g, s)).dest_id = get_edge(g, NextOf(g, s)).src_id

\* the original edges reached by following the back-pointers of an edge
RECURSIVE FollowBack(_, _)
FollowBack(g, id) ==
    IF IsShortcut(g, id)
    THEN FollowBack(g, PrevOf(g, id)) \o FollowBack(g, NextOf(g, id))
    ELSE << id >>

\* following back-pointers from any edge ends in original edges that lead
\* from the edge's source to its target
EndsInOriginals(g) ==
    \A id \in EdgeIds(g) :
        LET p == FollowBack(g, id)
        IN  /\ \A k \in 1 .. Len(p) : ~IsShortcut(g, p[k])
            /\ get_edge(g, p[1]).src_id = get_edge(g, id).src_id
            /\ get_edge(g, p[Len(p)]).dest_id = get_edge(g, id).dest_id
            /\ \A k \in 1 .. (Len(p) - 1) :
                   get_edge(g, p[k]).dest_id = get_edge(g, p[k + 1]).src_id

\* a step of contraction: an edge it creates is a shortcut made inside
\* contract_node whose two packed edges meet in the node being contracted
ShortcutsPointBack ==
    /\ PointBack(overlay') /\ PointBack(graph')
    /\ EndsInOriginals(overlay')
    /\ \A s \in EdgeIds(overlay') \ EdgeIds(overlay) :
           /\ pc = "contract"
           /\ IsShortcut(overlay', s)
           /\ get_edge(overlay', PrevOf(overlay', s)).dest_id = cg.contracted_id
           /\ get_edge(overlay', NextOf(overlay', s)).src_id = cg.contracted_id

\* C29: every shortcut s created while contracting u has prev_edge < s,
\* next_edge < s and dest(prev_edge) = src(next_edge) = u, and following
\* back-pointers from any edge ends in original edges.
C29_BackPointersDescend == [][ShortcutsPointBack]_vars

\* contraction is over and some shortcut packs a shortcut made while an
\* earlier node was contracted
C29_Witness ==
    /\ pc = "done"
    /\ \E s \in EdgeIds(overlay) :
           /\ IsShortcut(overlay, s)
           /\ \/ IsShortcut(overlay, PrevOf(overlay, s))
              \/ IsShortcut(overlay, NextOf(overlay, s))
           /\ Len(FollowBack(overlay, s)) >= 3

\* ---------------------------------------------------------------------
\* C30: in the CSR snapshot values_hot[i] and values_cold[i] describe the
\* same edge of the mutable graph for every index i, so the cold record at
\* a value index taken from cols_fwd or cols_bwd is that edge's record.
C30_HotColdAligned ==
    pc = "frozen" =>
        /\ Len(csr.values_hot) = Len(csr.values_cold)
        /\ \A i \in 1 .. Len(csr.values_hot) :
               csr.values_cold[i] = CSREdgeCold(overlay, csr.values_hot[i].id)

==========================================================================
